---- MODULE Spec2Model ----
(***************************************************************************)
(* Model of scripts/analyze_logs.py: the LogAnalyzer that ingests the log  *)
(* files of the UniPlaySong and PlayniteSound extensions, turns each line  *)
(* into a LogEvent and derives the comparison reports.                     *)
(*                                                                         *)
(* Text is modelled as a sequence of characters and a character as its     *)
(* Unicode code point, so that the regular expressions, the substring      *)
(* tests, str.strip() and str.lower() of the source are computed character *)
(* by character over the whole of Unicode: the files are opened as utf-8,  *)
(* and \d, \w, \s, re.IGNORECASE and str.lower() of Python work on every   *)
(* character, not on ASCII only.  A text written in the model is followed  *)
(* by a comment that spells it.  A timestamp is computed from the digits   *)
(* of the line: the proleptic Gregorian ordinal of its date and the        *)
(* milliseconds since midnight.                                            *)
(***************************************************************************)
EXTENDS Integers, Sequences, FiniteSets, TLC

(***************************************************************************)
(* Characters and the str operations the source uses.  The tables hold     *)
(* the characters above ASCII as ranges <<first, last>> of code points;    *)
(* they are those of the Unicode database of Python 3.11.                  *)
(***************************************************************************)
\* c is in one of the ranges of the table
InRanges(c, ranges) ==
    \E i \in DOMAIN ranges : ranges[i][1] <= c /\ c <= ranges[i][2]

\* the decimal digits above ASCII: each range is the digits 0 to 9 of one script
DigitChars == <<
      <<1632,1641>>, <<1776,1785>>, <<1984,1993>>, <<2406,2415>>,
      <<2534,2543>>, <<2662,2671>>, <<2790,2799>>, <<2918,2927>>,
      <<3046,3055>>, <<3174,3183>>, <<3302,3311>>, <<3430,3439>>,
      <<3558,3567>>, <<3664,3673>>, <<3792,3801>>, <<3872,3881>>,
      <<4160,4169>>, <<4240,4249>>, <<6112,6121>>, <<6160,6169>>,
      <<6470,6479>>, <<6608,6617>>, <<6784,6793>>, <<6800,6809>>,
      <<6992,7001>>, <<7088,7097>>, <<7232,7241>>, <<7248,7257>>,
      <<42528,42537>>, <<43216,43225>>, <<43264,43273>>, <<43472,43481>>,
      <<43504,43513>>, <<43600,43609>>, <<44016,44025>>, <<65296,65305>>,
      <<66720,66729>>, <<68912,68921>>, <<69734,69743>>, <<69872,69881>>,
      <<69942,69951>>, <<70096,70105>>, <<70384,70393>>, <<70736,70745>>,
      <<70864,70873>>, <<71248,71257>>, <<71360,71369>>, <<71472,71481>>,
      <<71904,71913>>, <<72016,72025>>, <<72784,72793>>, <<73040,73049>>,
      <<73120,73129>>, <<92768,92777>>, <<92864,92873>>, <<93008,93017>>,
      <<120782,120791>>, <<120792,120801>>, <<120802,120811>>,
      <<120812,120821>>, <<120822,120831>>, <<123200,123209>>,
      <<123632,123641>>, <<125264,125273>>, <<130032,130041>> >>

\* the letters and numbers above ASCII
WordChars == <<
      <<170,170>>, <<178,179>>, <<181,181>>, <<185,186>>, <<188,190>>,
      <<192,214>>, <<216,246>>, <<248,705>>, <<710,721>>, <<736,740>>,
      <<748,748>>, <<750,750>>, <<880,884>>, <<886,887>>, <<890,893>>,
      <<895,895>>, <<902,902>>, <<904,906>>, <<908,908>>, <<910,929>>,
      <<931,1013>>, <<1015,1153>>, <<1162,1327>>, <<1329,1366>>,
      <<1369,1369>>, <<1376,1416>>, <<1488,1514>>, <<1519,1522>>,
      <<1568,1610>>, <<1632,1641>>, <<1646,1647>>, <<1649,1747>>,
      <<1749,1749>>, <<1765,1766>>, <<1774,1788>>, <<1791,1791>>,
      <<1808,1808>>, <<1810,1839>>, <<1869,1957>>, <<1969,1969>>,
      <<1984,2026>>, <<2036,2037>>, <<2042,2042>>, <<2048,2069>>,
      <<2074,2074>>, <<2084,2084>>, <<2088,2088>>, <<2112,2136>>,
      <<2144,2154>>, <<2160,2183>>, <<2185,2190>>, <<2208,2249>>,
      <<2308,2361>>, <<2365,2365>>, <<2384,2384>>, <<2392,2401>>,
      <<2406,2415>>, <<2417,2432>>, <<2437,2444>>, <<2447,2448>>,
      <<2451,2472>>, <<2474,2480>>, <<2482,2482>>, <<2486,2489>>,
      <<2493,2493>>, <<2510,2510>>, <<2524,2525>>, <<2527,2529>>,
      <<2534,2545>>, <<2548,2553>>, <<2556,2556>>, <<2565,2570>>,
      <<2575,2576>>, <<2579,2600>>, <<2602,2608>>, <<2610,2611>>,
      <<2613,2614>>, <<2616,2617>>, <<2649,2652>>, <<2654,2654>>,
      <<2662,2671>>, <<2674,2676>>, <<2693,2701>>, <<2703,2705>>,
      <<2707,2728>>, <<2730,2736>>, <<2738,2739>>, <<2741,2745>>,
      <<2749,2749>>, <<2768,2768>>, <<2784,2785>>, <<2790,2799>>,
      <<2809,2809>>, <<2821,2828>>, <<2831,2832>>, <<2835,2856>>,
      <<2858,2864>>, <<2866,2867>>, <<2869,2873>>, <<2877,2877>>,
      <<2908,2909>>, <<2911,2913>>, <<2918,2927>>, <<2929,2935>>,
      <<2947,2947>>, <<2949,2954>>, <<2958,2960>>, <<2962,2965>>,
      <<2969,2970>>, <<2972,2972>>, <<2974,2975>>, <<2979,2980>>,
      <<2984,2986>>, <<2990,3001>>, <<3024,3024>>, <<3046,3058>>,
      <<3077,3084>>, <<3086,3088>>, <<3090,3112>>, <<3114,3129>>,
      <<3133,3133>>, <<3160,3162>>, <<3165,3165>>, <<3168,3169>>,
      <<3174,3183>>, <<3192,3198>>, <<3200,3200>>, <<3205,3212>>,
      <<3214,3216>>, <<3218,3240>>, <<3242,3251>>, <<3253,3257>>,
      <<3261,3261>>, <<3293,3294>>, <<3296,3297>>, <<3302,3311>>,
      <<3313,3314>>, <<3332,3340>>, <<3342,3344>>, <<3346,3386>>,
      <<3389,3389>>, <<3406,3406>>, <<3412,3414>>, <<3416,3425>>,
      <<3430,3448>>, <<3450,3455>>, <<3461,3478>>, <<3482,3505>>,
      <<3507,3515>>, <<3517,3517>>, <<3520,3526>>, <<3558,3567>>,
      <<3585,3632>>, <<3634,3635>>, <<3648,3654>>, <<3664,3673>>,
      <<3713,3714>>, <<3716,3716>>, <<3718,3722>>, <<3724,3747>>,
      <<3749,3749>>, <<3751,3760>>, <<3762,3763>>, <<3773,3773>>,
      <<3776,3780>>, <<3782,3782>>, <<3792,3801>>, <<3804,3807>>,
      <<3840,3840>>, <<3872,3891>>, <<3904,3911>>, <<3913,3948>>,
      <<3976,3980>>, <<4096,4138>>, <<4159,4169>>, <<4176,4181>>,
      <<4186,4189>>, <<4193,4193>>, <<4197,4198>>, <<4206,4208>>,
      <<4213,4225>>, <<4238,4238>>, <<4240,4249>>, <<4256,4293>>,
      <<4295,4295>>, <<4301,4301>>, <<4304,4346>>, <<4348,4680>>,
      <<4682,4685>>, <<4688,4694>>, <<4696,4696>>, <<4698,4701>>,
      <<4704,4744>>, <<4746,4749>>, <<4752,4784>>, <<4786,4789>>,
      <<4792,4798>>, <<4800,4800>>, <<4802,4805>>, <<4808,4822>>,
      <<4824,4880>>, <<4882,4885>>, <<4888,4954>>, <<4969,4988>>,
      <<4992,5007>>, <<5024,5109>>, <<5112,5117>>, <<5121,5740>>,
      <<5743,5759>>, <<5761,5786>>, <<5792,5866>>, <<5870,5880>>,
      <<5888,5905>>, <<5919,5937>>, <<5952,5969>>, <<5984,5996>>,
      <<5998,6000>>, <<6016,6067>>, <<6103,6103>>, <<6108,6108>>,
      <<6112,6121>>, <<6128,6137>>, <<6160,6169>>, <<6176,6264>>,
      <<6272,6276>>, <<6279,6312>>, <<6314,6314>>, <<6320,6389>>,
      <<6400,6430>>, <<6470,6509>>, <<6512,6516>>, <<6528,6571>>,
      <<6576,6601>>, <<6608,6618>>, <<6656,6678>>, <<6688,6740>>,
      <<6784,6793>>, <<6800,6809>>, <<6823,6823>>, <<6917,6963>>,
      <<6981,6988>>, <<6992,7001>>, <<7043,7072>>, <<7086,7141>>,
      <<7168,7203>>, <<7232,7241>>, <<7245,7293>>, <<7296,7304>>,
      <<7312,7354>>, <<7357,7359>>, <<7401,7404>>, <<7406,7411>>,
      <<7413,7414>>, <<7418,7418>>, <<7424,7615>>, <<7680,7957>>,
      <<7960,7965>>, <<7968,8005>>, <<8008,8013>>, <<8016,8023>>,
      <<8025,8025>>, <<8027,8027>>, <<8029,8029>>, <<8031,8061>>,
      <<8064,8116>>, <<8118,8124>>, <<8126,8126>>, <<8130,8132>>,
      <<8134,8140>>, <<8144,8147>>, <<8150,8155>>, <<8160,8172>>,
      <<8178,8180>>, <<8182,8188>>, <<8304,8305>>, <<8308,8313>>,
      <<8319,8329>>, <<8336,8348>>, <<8450,8450>>, <<8455,8455>>,
      <<8458,8467>>, <<8469,8469>>, <<8473,8477>>, <<8484,8484>>,
      <<8486,8486>>, <<8488,8488>>, <<8490,8493>>, <<8495,8505>>,
      <<8508,8511>>, <<8517,8521>>, <<8526,8526>>, <<8528,8585>>,
      <<9312,9371>>, <<9450,9471>>, <<10102,10131>>, <<11264,11492>>,
      <<11499,11502>>, <<11506,11507>>, <<11517,11517>>, <<11520,11557>>,
      <<11559,11559>>, <<11565,11565>>, <<11568,11623>>, <<11631,11631>>,
      <<11648,11670>>, <<11680,11686>>, <<11688,11694>>, <<11696,11702>>,
      <<11704,11710>>, <<11712,11718>>, <<11720,11726>>, <<11728,11734>>,
      <<11736,11742>>, <<11823,11823>>, <<12293,12295>>, <<12321,12329>>,
      <<12337,12341>>, <<12344,12348>>, <<12353,12438>>, <<12445,12447>>,
      <<12449,12538>>, <<12540,12543>>, <<12549,12591>>, <<12593,12686>>,
      <<12690,12693>>, <<12704,12735>>, <<12784,12799>>, <<12832,12841>>,
      <<12872,12879>>, <<12881,12895>>, <<12928,12937>>, <<12977,12991>>,
      <<13312,19903>>, <<19968,42124>>, <<42192,42237>>, <<42240,42508>>,
      <<42512,42539>>, <<42560,42606>>, <<42623,42653>>, <<42656,42735>>,
      <<42775,42783>>, <<42786,42888>>, <<42891,42954>>, <<42960,42961>>,
      <<42963,42963>>, <<42965,42969>>, <<42994,43009>>, <<43011,43013>>,
      <<43015,43018>>, <<43020,43042>>, <<43056,43061>>, <<43072,43123>>,
      <<43138,43187>>, <<43216,43225>>, <<43250,43255>>, <<43259,43259>>,
      <<43261,43262>>, <<43264,43301>>, <<43312,43334>>, <<43360,43388>>,
      <<43396,43442>>, <<43471,43481>>, <<43488,43492>>, <<43494,43518>>,
      <<43520,43560>>, <<43584,43586>>, <<43588,43595>>, <<43600,43609>>,
      <<43616,43638>>, <<43642,43642>>, <<43646,43695>>, <<43697,43697>>,
      <<43701,43702>>, <<43705,43709>>, <<43712,43712>>, <<43714,43714>>,
      <<43739,43741>>, <<43744,43754>>, <<43762,43764>>, <<43777,43782>>,
      <<43785,43790>>, <<43793,43798>>, <<43808,43814>>, <<43816,43822>>,
      <<43824,43866>>, <<43868,43881>>, <<43888,44002>>, <<44016,44025>>,
      <<44032,55203>>, <<55216,55238>>, <<55243,55291>>, <<63744,64109>>,
      <<64112,64217>>, <<64256,64262>>, <<64275,64279>>, <<64285,64285>>,
      <<64287,64296>>, <<64298,64310>>, <<64312,64316>>, <<64318,64318>>,
      <<64320,64321>>, <<64323,64324>>, <<64326,64433>>, <<64467,64829>>,
      <<64848,64911>>, <<64914,64967>>, <<65008,65019>>, <<65136,65140>>,
      <<65142,65276>>, <<65296,65305>>, <<65313,65338>>, <<65345,65370>>,
      <<65382,65470>>, <<65474,65479>>, <<65482,65487>>, <<65490,65495>>,
      <<65498,65500>>, <<65536,65547>>, <<65549,65574>>, <<65576,65594>>,
      <<65596,65597>>, <<65599,65613>>, <<65616,65629>>, <<65664,65786>>,
      <<65799,65843>>, <<65856,65912>>, <<65930,65931>>, <<66176,66204>>,
      <<66208,66256>>, <<66273,66299>>, <<66304,66339>>, <<66349,66378>>,
      <<66384,66421>>, <<66432,66461>>, <<66464,66499>>, <<66504,66511>>,
      <<66513,66517>>, <<66560,66717>>, <<66720,66729>>, <<66736,66771>>,
      <<66776,66811>>, <<66816,66855>>, <<66864,66915>>, <<66928,66938>>,
      <<66940,66954>>, <<66956,66962>>, <<66964,66965>>, <<66967,66977>>,
      <<66979,66993>>, <<66995,67001>>, <<67003,67004>>, <<67072,67382>>,
      <<67392,67413>>, <<67424,67431>>, <<67456,67461>>, <<67463,67504>>,
      <<67506,67514>>, <<67584,67589>>, <<67592,67592>>, <<67594,67637>>,
      <<67639,67640>>, <<67644,67644>>, <<67647,67669>>, <<67672,67702>>,
      <<67705,67742>>, <<67751,67759>>, <<67808,67826>>, <<67828,67829>>,
      <<67835,67867>>, <<67872,67897>>, <<67968,68023>>, <<68028,68047>>,
      <<68050,68096>>, <<68112,68115>>, <<68117,68119>>, <<68121,68149>>,
      <<68160,68168>>, <<68192,68222>>, <<68224,68255>>, <<68288,68295>>,
      <<68297,68324>>, <<68331,68335>>, <<68352,68405>>, <<68416,68437>>,
      <<68440,68466>>, <<68472,68497>>, <<68521,68527>>, <<68608,68680>>,
      <<68736,68786>>, <<68800,68850>>, <<68858,68899>>, <<68912,68921>>,
      <<69216,69246>>, <<69248,69289>>, <<69296,69297>>, <<69376,69415>>,
      <<69424,69445>>, <<69457,69460>>, <<69488,69505>>, <<69552,69579>>,
      <<69600,69622>>, <<69635,69687>>, <<69714,69743>>, <<69745,69746>>,
      <<69749,69749>>, <<69763,69807>>, <<69840,69864>>, <<69872,69881>>,
      <<69891,69926>>, <<69942,69951>>, <<69956,69956>>, <<69959,69959>>,
      <<69968,70002>>, <<70006,70006>>, <<70019,70066>>, <<70081,70084>>,
      <<70096,70106>>, <<70108,70108>>, <<70113,70132>>, <<70144,70161>>,
      <<70163,70187>>, <<70272,70278>>, <<70280,70280>>, <<70282,70285>>,
      <<70287,70301>>, <<70303,70312>>, <<70320,70366>>, <<70384,70393>>,
      <<70405,70412>>, <<70415,70416>>, <<70419,70440>>, <<70442,70448>>,
      <<70450,70451>>, <<70453,70457>>, <<70461,70461>>, <<70480,70480>>,
      <<70493,70497>>, <<70656,70708>>, <<70727,70730>>, <<70736,70745>>,
      <<70751,70753>>, <<70784,70831>>, <<70852,70853>>, <<70855,70855>>,
      <<70864,70873>>, <<71040,71086>>, <<71128,71131>>, <<71168,71215>>,
      <<71236,71236>>, <<71248,71257>>, <<71296,71338>>, <<71352,71352>>,
      <<71360,71369>>, <<71424,71450>>, <<71472,71483>>, <<71488,71494>>,
      <<71680,71723>>, <<71840,71922>>, <<71935,71942>>, <<71945,71945>>,
      <<71948,71955>>, <<71957,71958>>, <<71960,71983>>, <<71999,71999>>,
      <<72001,72001>>, <<72016,72025>>, <<72096,72103>>, <<72106,72144>>,
      <<72161,72161>>, <<72163,72163>>, <<72192,72192>>, <<72203,72242>>,
      <<72250,72250>>, <<72272,72272>>, <<72284,72329>>, <<72349,72349>>,
      <<72368,72440>>, <<72704,72712>>, <<72714,72750>>, <<72768,72768>>,
      <<72784,72812>>, <<72818,72847>>, <<72960,72966>>, <<72968,72969>>,
      <<72971,73008>>, <<73030,73030>>, <<73040,73049>>, <<73056,73061>>,
      <<73063,73064>>, <<73066,73097>>, <<73112,73112>>, <<73120,73129>>,
      <<73440,73458>>, <<73648,73648>>, <<73664,73684>>, <<73728,74649>>,
      <<74752,74862>>, <<74880,75075>>, <<77712,77808>>, <<77824,78894>>,
      <<82944,83526>>, <<92160,92728>>, <<92736,92766>>, <<92768,92777>>,
      <<92784,92862>>, <<92864,92873>>, <<92880,92909>>, <<92928,92975>>,
      <<92992,92995>>, <<93008,93017>>, <<93019,93025>>, <<93027,93047>>,
      <<93053,93071>>, <<93760,93846>>, <<93952,94026>>, <<94032,94032>>,
      <<94099,94111>>, <<94176,94177>>, <<94179,94179>>, <<94208,100343>>,
      <<100352,101589>>, <<101632,101640>>, <<110576,110579>>,
      <<110581,110587>>, <<110589,110590>>, <<110592,110882>>,
      <<110928,110930>>, <<110948,110951>>, <<110960,111355>>,
      <<113664,113770>>, <<113776,113788>>, <<113792,113800>>,
      <<113808,113817>>, <<119520,119539>>, <<119648,119672>>,
      <<119808,119892>>, <<119894,119964>>, <<119966,119967>>,
      <<119970,119970>>, <<119973,119974>>, <<119977,119980>>,
      <<119982,119993>>, <<119995,119995>>, <<119997,120003>>,
      <<120005,120069>>, <<120071,120074>>, <<120077,120084>>,
      <<120086,120092>>, <<120094,120121>>, <<120123,120126>>,
      <<120128,120132>>, <<120134,120134>>, <<120138,120144>>,
      <<120146,120485>>, <<120488,120512>>, <<120514,120538>>,
      <<120540,120570>>, <<120572,120596>>, <<120598,120628>>,
      <<120630,120654>>, <<120656,120686>>, <<120688,120712>>,
      <<120714,120744>>, <<120746,120770>>, <<120772,120779>>,
      <<120782,120831>>, <<122624,122654>>, <<123136,123180>>,
      <<123191,123197>>, <<123200,123209>>, <<123214,123214>>,
      <<123536,123565>>, <<123584,123627>>, <<123632,123641>>,
      <<124896,124902>>, <<124904,124907>>, <<124909,124910>>,
      <<124912,124926>>, <<124928,125124>>, <<125127,125135>>,
      <<125184,125251>>, <<125259,125259>>, <<125264,125273>>,
      <<126065,126123>>, <<126125,126127>>, <<126129,126132>>,
      <<126209,126253>>, <<126255,126269>>, <<126464,126467>>,
      <<126469,126495>>, <<126497,126498>>, <<126500,126500>>,
      <<126503,126503>>, <<126505,126514>>, <<126516,126519>>,
      <<126521,126521>>, <<126523,126523>>, <<126530,126530>>,
      <<126535,126535>>, <<126537,126537>>, <<126539,126539>>,
      <<126541,126543>>, <<126545,126546>>, <<126548,126548>>,
      <<126551,126551>>, <<126553,126553>>, <<126555,126555>>,
      <<126557,126557>>, <<126559,126559>>, <<126561,126562>>,
      <<126564,126564>>, <<126567,126570>>, <<126572,126578>>,
      <<126580,126583>>, <<126585,126588>>, <<126590,126590>>,
      <<126592,126601>>, <<126603,126619>>, <<126625,126627>>,
      <<126629,126633>>, <<126635,126651>>, <<127232,127244>>,
      <<130032,130041>>, <<131072,173791>>, <<173824,177976>>,
      <<177984,178205>>, <<178208,183969>>, <<183984,191456>>,
      <<194560,195101>>, <<196608,201546>> >>

\* the whitespace: \t \n \v \f \r, the four separators before the space, the
\* space, and the whitespace above ASCII
SpaceChars ==
    (9..13) \cup (28..32) \cup { 133, 160, 5760, 8192, 8193, 8194, 8195, 8196, 8197, 8198, 8199, 8200, 8201, 8202, 8232, 8233, 8239, 8287, 12288 }

\* the characters above ASCII whose str.lower() is one other character, as
\* runs <<first, last, step, delta>>: every step-th character from first to
\* last has the lower case delta further
LowerRuns == <<
      <<192,214,1,32>>, <<216,222,1,32>>, <<256,302,2,1>>, <<306,310,2,1>>,
      <<313,327,2,1>>, <<330,374,2,1>>, <<376,376,1,-121>>, <<377,381,2,1>>,
      <<385,385,1,210>>, <<386,388,2,1>>, <<390,390,1,206>>, <<391,391,1,1>>,
      <<393,394,1,205>>, <<395,395,1,1>>, <<398,398,1,79>>,
      <<399,399,1,202>>, <<400,400,1,203>>, <<401,401,1,1>>,
      <<403,403,1,205>>, <<404,404,1,207>>, <<406,406,1,211>>,
      <<407,407,1,209>>, <<408,408,1,1>>, <<412,412,1,211>>,
      <<413,413,1,213>>, <<415,415,1,214>>, <<416,420,2,1>>,
      <<422,422,1,218>>, <<423,423,1,1>>, <<425,425,1,218>>, <<428,428,1,1>>,
      <<430,430,1,218>>, <<431,431,1,1>>, <<433,434,1,217>>, <<435,437,2,1>>,
      <<439,439,1,219>>, <<440,440,1,1>>, <<444,444,1,1>>, <<452,452,1,2>>,
      <<453,453,1,1>>, <<455,455,1,2>>, <<456,456,1,1>>, <<458,458,1,2>>,
      <<459,475,2,1>>, <<478,494,2,1>>, <<497,497,1,2>>, <<498,500,2,1>>,
      <<502,502,1,-97>>, <<503,503,1,-56>>, <<504,542,2,1>>,
      <<544,544,1,-130>>, <<546,562,2,1>>, <<570,570,1,10795>>,
      <<571,571,1,1>>, <<573,573,1,-163>>, <<574,574,1,10792>>,
      <<577,577,1,1>>, <<579,579,1,-195>>, <<580,580,1,69>>,
      <<581,581,1,71>>, <<582,590,2,1>>, <<880,882,2,1>>, <<886,886,1,1>>,
      <<895,895,1,116>>, <<902,902,1,38>>, <<904,906,1,37>>,
      <<908,908,1,64>>, <<910,911,1,63>>, <<913,929,1,32>>, <<931,939,1,32>>,
      <<975,975,1,8>>, <<984,1006,2,1>>, <<1012,1012,1,-60>>,
      <<1015,1015,1,1>>, <<1017,1017,1,-7>>, <<1018,1018,1,1>>,
      <<1021,1023,1,-130>>, <<1024,1039,1,80>>, <<1040,1071,1,32>>,
      <<1120,1152,2,1>>, <<1162,1214,2,1>>, <<1216,1216,1,15>>,
      <<1217,1229,2,1>>, <<1232,1326,2,1>>, <<1329,1366,1,48>>,
      <<4256,4293,1,7264>>, <<4295,4295,1,7264>>, <<4301,4301,1,7264>>,
      <<5024,5103,1,38864>>, <<5104,5109,1,8>>, <<7312,7354,1,-3008>>,
      <<7357,7359,1,-3008>>, <<7680,7828,2,1>>, <<7838,7838,1,-7615>>,
      <<7840,7934,2,1>>, <<7944,7951,1,-8>>, <<7960,7965,1,-8>>,
      <<7976,7983,1,-8>>, <<7992,7999,1,-8>>, <<8008,8013,1,-8>>,
      <<8025,8031,2,-8>>, <<8040,8047,1,-8>>, <<8072,8079,1,-8>>,
      <<8088,8095,1,-8>>, <<8104,8111,1,-8>>, <<8120,8121,1,-8>>,
      <<8122,8123,1,-74>>, <<8124,8124,1,-9>>, <<8136,8139,1,-86>>,
      <<8140,8140,1,-9>>, <<8152,8153,1,-8>>, <<8154,8155,1,-100>>,
      <<8168,8169,1,-8>>, <<8170,8171,1,-112>>, <<8172,8172,1,-7>>,
      <<8184,8185,1,-128>>, <<8186,8187,1,-126>>, <<8188,8188,1,-9>>,
      <<8486,8486,1,-7517>>, <<8490,8490,1,-8383>>, <<8491,8491,1,-8262>>,
      <<8498,8498,1,28>>, <<8544,8559,1,16>>, <<8579,8579,1,1>>,
      <<9398,9423,1,26>>, <<11264,11311,1,48>>, <<11360,11360,1,1>>,
      <<11362,11362,1,-10743>>, <<11363,11363,1,-3814>>,
      <<11364,11364,1,-10727>>, <<11367,11371,2,1>>,
      <<11373,11373,1,-10780>>, <<11374,11374,1,-10749>>,
      <<11375,11375,1,-10783>>, <<11376,11376,1,-10782>>,
      <<11378,11378,1,1>>, <<11381,11381,1,1>>, <<11390,11391,1,-10815>>,
      <<11392,11490,2,1>>, <<11499,11501,2,1>>, <<11506,11506,1,1>>,
      <<42560,42604,2,1>>, <<42624,42650,2,1>>, <<42786,42798,2,1>>,
      <<42802,42862,2,1>>, <<42873,42875,2,1>>, <<42877,42877,1,-35332>>,
      <<42878,42886,2,1>>, <<42891,42891,1,1>>, <<42893,42893,1,-42280>>,
      <<42896,42898,2,1>>, <<42902,42920,2,1>>, <<42922,42922,1,-42308>>,
      <<42923,42923,1,-42319>>, <<42924,42924,1,-42315>>,
      <<42925,42925,1,-42305>>, <<42926,42926,1,-42308>>,
      <<42928,42928,1,-42258>>, <<42929,42929,1,-42282>>,
      <<42930,42930,1,-42261>>, <<42931,42931,1,928>>, <<42932,42946,2,1>>,
      <<42948,42948,1,-48>>, <<42949,42949,1,-42307>>,
      <<42950,42950,1,-35384>>, <<42951,42953,2,1>>, <<42960,42960,1,1>>,
      <<42966,42968,2,1>>, <<42997,42997,1,1>>, <<65313,65338,1,32>>,
      <<66560,66599,1,40>>, <<66736,66771,1,40>>, <<66928,66938,1,39>>,
      <<66940,66954,1,39>>, <<66956,66962,1,39>>, <<66964,66965,1,39>>,
      <<68736,68786,1,64>>, <<71840,71871,1,32>>, <<93760,93791,1,32>>,
      <<125184,125217,1,34>> >>

\* the characters above ASCII that are cased and not case-ignorable
CasedChars == <<
      <<170,170>>, <<181,181>>, <<186,186>>, <<192,214>>, <<216,246>>,
      <<248,442>>, <<444,447>>, <<452,659>>, <<661,687>>, <<880,883>>,
      <<886,887>>, <<891,893>>, <<895,895>>, <<902,902>>, <<904,906>>,
      <<908,908>>, <<910,929>>, <<931,1013>>, <<1015,1153>>, <<1162,1327>>,
      <<1329,1366>>, <<1376,1416>>, <<4256,4293>>, <<4295,4295>>,
      <<4301,4301>>, <<4304,4346>>, <<4349,4351>>, <<5024,5109>>,
      <<5112,5117>>, <<7296,7304>>, <<7312,7354>>, <<7357,7359>>,
      <<7424,7467>>, <<7531,7543>>, <<7545,7578>>, <<7680,7957>>,
      <<7960,7965>>, <<7968,8005>>, <<8008,8013>>, <<8016,8023>>,
      <<8025,8025>>, <<8027,8027>>, <<8029,8029>>, <<8031,8061>>,
      <<8064,8116>>, <<8118,8124>>, <<8126,8126>>, <<8130,8132>>,
      <<8134,8140>>, <<8144,8147>>, <<8150,8155>>, <<8160,8172>>,
      <<8178,8180>>, <<8182,8188>>, <<8450,8450>>, <<8455,8455>>,
      <<8458,8467>>, <<8469,8469>>, <<8473,8477>>, <<8484,8484>>,
      <<8486,8486>>, <<8488,8488>>, <<8490,8493>>, <<8495,8500>>,
      <<8505,8505>>, <<8508,8511>>, <<8517,8521>>, <<8526,8526>>,
      <<8544,8575>>, <<8579,8580>>, <<9398,9449>>, <<11264,11387>>,
      <<11390,11492>>, <<11499,11502>>, <<11506,11507>>, <<11520,11557>>,
      <<11559,11559>>, <<11565,11565>>, <<42560,42605>>, <<42624,42651>>,
      <<42786,42863>>, <<42865,42887>>, <<42891,42894>>, <<42896,42954>>,
      <<42960,42961>>, <<42963,42963>>, <<42965,42969>>, <<42997,42998>>,
      <<43002,43002>>, <<43824,43866>>, <<43872,43880>>, <<43888,43967>>,
      <<64256,64262>>, <<64275,64279>>, <<65313,65338>>, <<65345,65370>>,
      <<66560,66639>>, <<66736,66771>>, <<66776,66811>>, <<66928,66938>>,
      <<66940,66954>>, <<66956,66962>>, <<66964,66965>>, <<66967,66977>>,
      <<66979,66993>>, <<66995,67001>>, <<67003,67004>>, <<68736,68786>>,
      <<68800,68850>>, <<71840,71903>>, <<93760,93823>>, <<119808,119892>>,
      <<119894,119964>>, <<119966,119967>>, <<119970,119970>>,
      <<119973,119974>>, <<119977,119980>>, <<119982,119993>>,
      <<119995,119995>>, <<119997,120003>>, <<120005,120069>>,
      <<120071,120074>>, <<120077,120084>>, <<120086,120092>>,
      <<120094,120121>>, <<120123,120126>>, <<120128,120132>>,
      <<120134,120134>>, <<120138,120144>>, <<120146,120485>>,
      <<120488,120512>>, <<120514,120538>>, <<120540,120570>>,
      <<120572,120596>>, <<120598,120628>>, <<120630,120654>>,
      <<120656,120686>>, <<120688,120712>>, <<120714,120744>>,
      <<120746,120770>>, <<120772,120779>>, <<122624,122633>>,
      <<122635,122654>>, <<125184,125251>>, <<127280,127305>>,
      <<127312,127337>>, <<127344,127369>> >>

\* the case-ignorable characters above ASCII
CaseIgnorableChars == <<
      <<168,168>>, <<173,173>>, <<175,175>>, <<180,180>>, <<183,184>>,
      <<688,879>>, <<884,885>>, <<890,890>>, <<900,901>>, <<903,903>>,
      <<1155,1161>>, <<1369,1369>>, <<1375,1375>>, <<1425,1469>>,
      <<1471,1471>>, <<1473,1474>>, <<1476,1477>>, <<1479,1479>>,
      <<1524,1524>>, <<1536,1541>>, <<1552,1562>>, <<1564,1564>>,
      <<1600,1600>>, <<1611,1631>>, <<1648,1648>>, <<1750,1757>>,
      <<1759,1768>>, <<1770,1773>>, <<1807,1807>>, <<1809,1809>>,
      <<1840,1866>>, <<1958,1968>>, <<2027,2037>>, <<2042,2042>>,
      <<2045,2045>>, <<2070,2093>>, <<2137,2139>>, <<2184,2184>>,
      <<2192,2193>>, <<2200,2207>>, <<2249,2306>>, <<2362,2362>>,
      <<2364,2364>>, <<2369,2376>>, <<2381,2381>>, <<2385,2391>>,
      <<2402,2403>>, <<2417,2417>>, <<2433,2433>>, <<2492,2492>>,
      <<2497,2500>>, <<2509,2509>>, <<2530,2531>>, <<2558,2558>>,
      <<2561,2562>>, <<2620,2620>>, <<2625,2626>>, <<2631,2632>>,
      <<2635,2637>>, <<2641,2641>>, <<2672,2673>>, <<2677,2677>>,
      <<2689,2690>>, <<2748,2748>>, <<2753,2757>>, <<2759,2760>>,
      <<2765,2765>>, <<2786,2787>>, <<2810,2815>>, <<2817,2817>>,
      <<2876,2876>>, <<2879,2879>>, <<2881,2884>>, <<2893,2893>>,
      <<2901,2902>>, <<2914,2915>>, <<2946,2946>>, <<3008,3008>>,
      <<3021,3021>>, <<3072,3072>>, <<3076,3076>>, <<3132,3132>>,
      <<3134,3136>>, <<3142,3144>>, <<3146,3149>>, <<3157,3158>>,
      <<3170,3171>>, <<3201,3201>>, <<3260,3260>>, <<3263,3263>>,
      <<3270,3270>>, <<3276,3277>>, <<3298,3299>>, <<3328,3329>>,
      <<3387,3388>>, <<3393,3396>>, <<3405,3405>>, <<3426,3427>>,
      <<3457,3457>>, <<3530,3530>>, <<3538,3540>>, <<3542,3542>>,
      <<3633,3633>>, <<3636,3642>>, <<3654,3662>>, <<3761,3761>>,
      <<3764,3772>>, <<3782,3782>>, <<3784,3789>>, <<3864,3865>>,
      <<3893,3893>>, <<3895,3895>>, <<3897,3897>>, <<3953,3966>>,
      <<3968,3972>>, <<3974,3975>>, <<3981,3991>>, <<3993,4028>>,
      <<4038,4038>>, <<4141,4144>>, <<4146,4151>>, <<4153,4154>>,
      <<4157,4158>>, <<4184,4185>>, <<4190,4192>>, <<4209,4212>>,
      <<4226,4226>>, <<4229,4230>>, <<4237,4237>>, <<4253,4253>>,
      <<4348,4348>>, <<4957,4959>>, <<5906,5908>>, <<5938,5939>>,
      <<5970,5971>>, <<6002,6003>>, <<6068,6069>>, <<6071,6077>>,
      <<6086,6086>>, <<6089,6099>>, <<6103,6103>>, <<6109,6109>>,
      <<6155,6159>>, <<6211,6211>>, <<6277,6278>>, <<6313,6313>>,
      <<6432,6434>>, <<6439,6440>>, <<6450,6450>>, <<6457,6459>>,
      <<6679,6680>>, <<6683,6683>>, <<6742,6742>>, <<6744,6750>>,
      <<6752,6752>>, <<6754,6754>>, <<6757,6764>>, <<6771,6780>>,
      <<6783,6783>>, <<6823,6823>>, <<6832,6862>>, <<6912,6915>>,
      <<6964,6964>>, <<6966,6970>>, <<6972,6972>>, <<6978,6978>>,
      <<7019,7027>>, <<7040,7041>>, <<7074,7077>>, <<7080,7081>>,
      <<7083,7085>>, <<7142,7142>>, <<7144,7145>>, <<7149,7149>>,
      <<7151,7153>>, <<7212,7219>>, <<7222,7223>>, <<7288,7293>>,
      <<7376,7378>>, <<7380,7392>>, <<7394,7400>>, <<7405,7405>>,
      <<7412,7412>>, <<7416,7417>>, <<7468,7530>>, <<7544,7544>>,
      <<7579,7679>>, <<8125,8125>>, <<8127,8129>>, <<8141,8143>>,
      <<8157,8159>>, <<8173,8175>>, <<8189,8190>>, <<8203,8207>>,
      <<8216,8217>>, <<8228,8228>>, <<8231,8231>>, <<8234,8238>>,
      <<8288,8292>>, <<8294,8303>>, <<8305,8305>>, <<8319,8319>>,
      <<8336,8348>>, <<8400,8432>>, <<11388,11389>>, <<11503,11505>>,
      <<11631,11631>>, <<11647,11647>>, <<11744,11775>>, <<11823,11823>>,
      <<12293,12293>>, <<12330,12333>>, <<12337,12341>>, <<12347,12347>>,
      <<12441,12446>>, <<12540,12542>>, <<40981,40981>>, <<42232,42237>>,
      <<42508,42508>>, <<42607,42610>>, <<42612,42621>>, <<42623,42623>>,
      <<42652,42655>>, <<42736,42737>>, <<42752,42785>>, <<42864,42864>>,
      <<42888,42890>>, <<42994,42996>>, <<43000,43001>>, <<43010,43010>>,
      <<43014,43014>>, <<43019,43019>>, <<43045,43046>>, <<43052,43052>>,
      <<43204,43205>>, <<43232,43249>>, <<43263,43263>>, <<43302,43309>>,
      <<43335,43345>>, <<43392,43394>>, <<43443,43443>>, <<43446,43449>>,
      <<43452,43453>>, <<43471,43471>>, <<43493,43494>>, <<43561,43566>>,
      <<43569,43570>>, <<43573,43574>>, <<43587,43587>>, <<43596,43596>>,
      <<43632,43632>>, <<43644,43644>>, <<43696,43696>>, <<43698,43700>>,
      <<43703,43704>>, <<43710,43711>>, <<43713,43713>>, <<43741,43741>>,
      <<43756,43757>>, <<43763,43764>>, <<43766,43766>>, <<43867,43871>>,
      <<43881,43883>>, <<44005,44005>>, <<44008,44008>>, <<44013,44013>>,
      <<64286,64286>>, <<64434,64450>>, <<65024,65039>>, <<65043,65043>>,
      <<65056,65071>>, <<65106,65106>>, <<65109,65109>>, <<65279,65279>>,
      <<65287,65287>>, <<65294,65294>>, <<65306,65306>>, <<65342,65342>>,
      <<65344,65344>>, <<65392,65392>>, <<65438,65439>>, <<65507,65507>>,
      <<65529,65531>>, <<66045,66045>>, <<66272,66272>>, <<66422,66426>>,
      <<67456,67461>>, <<67463,67504>>, <<67506,67514>>, <<68097,68099>>,
      <<68101,68102>>, <<68108,68111>>, <<68152,68154>>, <<68159,68159>>,
      <<68325,68326>>, <<68900,68903>>, <<69291,69292>>, <<69446,69456>>,
      <<69506,69509>>, <<69633,69633>>, <<69688,69702>>, <<69744,69744>>,
      <<69747,69748>>, <<69759,69761>>, <<69811,69814>>, <<69817,69818>>,
      <<69821,69821>>, <<69826,69826>>, <<69837,69837>>, <<69888,69890>>,
      <<69927,69931>>, <<69933,69940>>, <<70003,70003>>, <<70016,70017>>,
      <<70070,70078>>, <<70089,70092>>, <<70095,70095>>, <<70191,70193>>,
      <<70196,70196>>, <<70198,70199>>, <<70206,70206>>, <<70367,70367>>,
      <<70371,70378>>, <<70400,70401>>, <<70459,70460>>, <<70464,70464>>,
      <<70502,70508>>, <<70512,70516>>, <<70712,70719>>, <<70722,70724>>,
      <<70726,70726>>, <<70750,70750>>, <<70835,70840>>, <<70842,70842>>,
      <<70847,70848>>, <<70850,70851>>, <<71090,71093>>, <<71100,71101>>,
      <<71103,71104>>, <<71132,71133>>, <<71219,71226>>, <<71229,71229>>,
      <<71231,71232>>, <<71339,71339>>, <<71341,71341>>, <<71344,71349>>,
      <<71351,71351>>, <<71453,71455>>, <<71458,71461>>, <<71463,71467>>,
      <<71727,71735>>, <<71737,71738>>, <<71995,71996>>, <<71998,71998>>,
      <<72003,72003>>, <<72148,72151>>, <<72154,72155>>, <<72160,72160>>,
      <<72193,72202>>, <<72243,72248>>, <<72251,72254>>, <<72263,72263>>,
      <<72273,72278>>, <<72281,72283>>, <<72330,72342>>, <<72344,72345>>,
      <<72752,72758>>, <<72760,72765>>, <<72767,72767>>, <<72850,72871>>,
      <<72874,72880>>, <<72882,72883>>, <<72885,72886>>, <<73009,73014>>,
      <<73018,73018>>, <<73020,73021>>, <<73023,73029>>, <<73031,73031>>,
      <<73104,73105>>, <<73109,73109>>, <<73111,73111>>, <<73459,73460>>,
      <<78896,78904>>, <<92912,92916>>, <<92976,92982>>, <<92992,92995>>,
      <<94031,94031>>, <<94095,94111>>, <<94176,94177>>, <<94179,94180>>,
      <<110576,110579>>, <<110581,110587>>, <<110589,110590>>,
      <<113821,113822>>, <<113824,113827>>, <<118528,118573>>,
      <<118576,118598>>, <<119143,119145>>, <<119155,119170>>,
      <<119173,119179>>, <<119210,119213>>, <<119362,119364>>,
      <<121344,121398>>, <<121403,121452>>, <<121461,121461>>,
      <<121476,121476>>, <<121499,121503>>, <<121505,121519>>,
      <<122880,122886>>, <<122888,122904>>, <<122907,122913>>,
      <<122915,122916>>, <<122918,122922>>, <<123184,123197>>,
      <<123566,123566>>, <<123628,123631>>, <<125136,125142>>,
      <<125252,125259>>, <<127995,127999>>, <<917505,917505>>,
      <<917536,917631>>, <<917760,917999>> >>

\* [0-9] of the re module
IsAsciiDigit(c) == 48 <= c /\ c <= 57

\* \d of the re module
IsDigit(c) == IF c < 128 THEN IsAsciiDigit(c) ELSE InRanges(c, DigitChars)

\* \w of the re module: letters, numbers and the underscore
IsWord(c) ==
    IF c < 128
    THEN IsAsciiDigit(c) \/ (65 <= c /\ c <= 90) \/ (97 <= c /\ c <= 122) \/ c = 95 (* _ *)
    ELSE InRanges(c, WordChars)

\* \s of the re module and the characters str.strip() removes
IsSpace(c) == c \in SpaceChars

\* . of the re module: any character but the newline
IsDot(c) == c # 10 (* \n *)

\* int() of one digit
DigitVal(c) ==
    IF c < 128 THEN c - 48
    ELSE c - DigitChars[CHOOSE i \in DOMAIN DigitChars :
                            DigitChars[i][1] <= c /\ c <= DigitChars[i][2]][1]

\* c is in the run r of LowerRuns
InRun(c, r) == r[1] <= c /\ c <= r[2] /\ (c - r[1]) % r[3] = 0

\* str.lower() of one character, for the characters it turns into one
\* character whatever stands around them
LowerChar(c) ==
    IF c < 128 THEN (IF 65 <= c /\ c <= 90 THEN c + 32 ELSE c)
    ELSE IF \E i \in DOMAIN LowerRuns : InRun(c, LowerRuns[i])
    THEN c + LowerRuns[CHOOSE i \in DOMAIN LowerRuns : InRun(c, LowerRuns[i])][4]
    ELSE c

IsCaseIgnorable(c) ==
    IF c < 128 THEN c \in { 39 (* ' *), 46 (* . *), 58 (* : *), 94 (* ^ *), 96 (* ` *) }
    ELSE InRanges(c, CaseIgnorableChars)

\* c is cased, for a character c that is not case-ignorable
IsCased(c) ==
    IF c < 128 THEN (65 <= c /\ c <= 90) \/ (97 <= c /\ c <= 122)
    ELSE InRanges(c, CasedChars)

\* the capital sigma at position i of s is final: the nearest character before it
\* that is not case-ignorable is cased, and the nearest after it is not
IsFinalSigma(s, i) ==
    /\ \E j \in 1..(i - 1) :
         /\ ~IsCaseIgnorable(s[j]) /\ IsCased(s[j])
         /\ \A k \in (j + 1)..(i - 1) : IsCaseIgnorable(s[k])
    /\ \A j \in (i + 1)..Len(s) :
         \/ IsCaseIgnorable(s[j]) \/ ~IsCased(s[j])
         \/ \E k \in (i + 1)..(j - 1) : ~IsCaseIgnorable(s[k])

\* str.lower() of the character at position i of s, as a text: the lower
\* case of the capital sigma is the final or the medial small sigma, that of
\* the capital I with a dot above is i and a combining dot above
LowerAt(s, i) ==
    IF s[i] = 931 (* \u03A3 *)
    THEN (IF IsFinalSigma(s, i) THEN <<962 (* \u03C2 *)>> ELSE <<963 (* \u03C3 *)>>)
    ELSE IF s[i] = 304 (* \u0130 *) THEN <<105 (* i *), 775 (* \u0307 *)>>
    ELSE <<LowerChar(s[i])>>

RECURSIVE LowerFrom(_, _)
LowerFrom(s, i) == IF i > Len(s) THEN <<>> ELSE LowerAt(s, i) \o LowerFrom(s, i + 1)

\* str.lower()
Lower(s) ==
    IF \A i \in DOMAIN s : s[i] # 304 (* \u0130 *)
    THEN [ i \in DOMAIN s |-> LowerAt(s, i)[1] ]
    ELSE LowerFrom(s, 1)

\* Python's  sub in s
Contains(sub, s) ==
    \E i \in 0..(Len(s) - Len(sub)) : SubSeq(s, i + 1, i + Len(sub)) = sub

\* str.strip()
Strip(s) ==
    LET ns == { i \in DOMAIN s : ~IsSpace(s[i]) }
    IN  IF ns = {} THEN <<>>
        ELSE SubSeq(s, CHOOSE i \in ns : \A j \in ns : i <= j,
                       CHOOSE i \in ns : \A j \in ns : j <= i)

\* the position after a greedy \s* that starts at position i
SkipSpace(s, i) ==
    CHOOSE j \in i..(Len(s) + 1) :
        /\ \A k \in i..(j - 1) : IsSpace(s[k])
        /\ (j <= Len(s) => ~IsSpace(s[j]))

\* the position after a greedy \w* that starts at position i
SkipWord(s, i) ==
    CHOOSE j \in i..(Len(s) + 1) :
        /\ \A k \in i..(j - 1) : IsWord(s[k])
        /\ (j <= Len(s) => ~IsWord(s[j]))

\* the position after a greedy .* that starts at position i
SkipDot(s, i) ==
    CHOOSE j \in i..(Len(s) + 1) :
        /\ \A k \in i..(j - 1) : IsDot(s[k])
        /\ (j <= Len(s) => ~IsDot(s[j]))

\* s has the character c at position i
CharAt(s, i, c) == i \in DOMAIN s /\ s[i] = c

(***************************************************************************)
(* The three line formats                                                  *)
(***************************************************************************)
TimestampLen == 23

\* \d{4}-\d{2}-\d{2} \d{2}:\d{2}:\d{2}\.\d{3} matches s at position i
TimestampAt(s, i) ==
    /\ i + TimestampLen - 1 <= Len(s)
    /\ \A k \in {0, 1, 2, 3, 5, 6, 8, 9, 11, 12, 14, 15, 17, 18, 20, 21, 22} :
           IsDigit(s[i + k])
    /\ s[i + 4] = 45 (* - *) /\ s[i + 7] = 45 (* - *) /\ s[i + 10] = 32 (* space *)
    /\ s[i + 13] = 58 (* : *) /\ s[i + 16] = 58 (* : *) /\ s[i + 19] = 46 (* . *)

NoMatch == [ matched |-> FALSE ]

\* Format 1: YYYY-MM-DD HH:MM:SS.mmm | LEVEL | Extension | Message
log_pattern(line) ==
    IF ~TimestampAt(line, 1) THEN NoMatch
    ELSE
    LET p1 == SkipSpace(line, TimestampLen + 1)
    IN  IF ~CharAt(line, p1, 124 (* | *)) THEN NoMatch
        ELSE
        LET l1 == SkipSpace(line, p1 + 1)
            l2 == SkipWord(line, l1)
            p2 == SkipSpace(line, l2)
        IN  IF l2 = l1 \/ ~CharAt(line, p2, 124 (* | *)) THEN NoMatch
            ELSE
            LET e1   == SkipSpace(line, p2 + 1)
                \* the lazy (.*?) ends at the first position from which \s*\|
                \* matches, and does not go past a newline
                ends == { e \in e1..SkipDot(line, e1) :
                            CharAt(line, SkipSpace(line, e), 124 (* | *)) }
            IN  IF ends = {} THEN NoMatch
                ELSE
                LET e2 == CHOOSE e \in ends : \A f \in ends : e <= f
                    p3 == SkipSpace(line, e2)
                    m1 == SkipSpace(line, p3 + 1)
                IN  [ matched        |-> TRUE,
                      timestamp_str  |-> SubSeq(line, 1, TimestampLen),
                      level          |-> SubSeq(line, l1, l2 - 1),
                      extension_name |-> SubSeq(line, e1, e2 - 1),
                      message        |-> SubSeq(line, m1, SkipDot(line, m1) - 1) ]

\* Format 2: [YYYY-MM-DD HH:MM:SS.mmm] [LEVEL] Message
filelogger_pattern(line) ==
    IF ~(CharAt(line, 1, 91 (* [ *)) /\ TimestampAt(line, 2)
           /\ CharAt(line, TimestampLen + 2, 93 (* ] *))) THEN NoMatch
    ELSE
    LET s1 == SkipSpace(line, TimestampLen + 3)
        l1 == s1 + 1
        l2 == SkipWord(line, l1)
        m1 == SkipSpace(line, l2 + 1)
    IN  IF \/ s1 = TimestampLen + 3
           \/ ~CharAt(line, s1, 91 (* [ *))
           \/ l2 = l1
           \/ ~CharAt(line, l2, 93 (* ] *))
           \/ m1 = l2 + 1
        THEN NoMatch
        ELSE [ matched       |-> TRUE,
               timestamp_str |-> SubSeq(line, 2, TimestampLen + 1),
               level         |-> SubSeq(line, l1, l2 - 1),
               message       |-> SubSeq(line, m1, SkipDot(line, m1) - 1) ]

\* Format 3: YYYY-MM-DD HH:MM:SS.mmm Message
simple_pattern(line) ==
    IF ~TimestampAt(line, 1) THEN NoMatch
    ELSE
    LET m1 == SkipSpace(line, TimestampLen + 1)
    IN  IF m1 = TimestampLen + 1 THEN NoMatch
        ELSE [ matched       |-> TRUE,
               timestamp_str |-> SubSeq(line, 1, TimestampLen),
               rest          |-> SubSeq(line, m1, SkipDot(line, m1) - 1) ]

(***************************************************************************)
(* datetime.strptime                                                       *)
(***************************************************************************)
\* the number the digits of s at positions i..j spell
RECURSIVE Number(_, _, _)
Number(s, i, j) ==
    IF j < i THEN 0 ELSE Number(s, i, j - 1) * 10 + DigitVal(s[j])

IsLeap(y) == (y % 4 = 0) /\ ((y % 100 # 0) \/ (y % 400 = 0))

DaysInMonth(y, m) ==
    IF m = 2 THEN (IF IsLeap(y) THEN 29 ELSE 28)
    ELSE IF m \in {4, 6, 9, 11} THEN 30 ELSE 31

RECURSIVE DaysBeforeMonth(_, _)
DaysBeforeMonth(y, m) ==
    IF m = 1 THEN 0 ELSE DaysBeforeMonth(y, m - 1) + DaysInMonth(y, m - 1)

\* date.toordinal(): the proleptic Gregorian ordinal, 0001-01-01 being day 1
Ordinal(y, m, d) ==
    LET p == y - 1
    IN  p * 365 + (p \div 4) - (p \div 100) + (p \div 400) + DaysBeforeMonth(y, m) + d

MsPerSecond == 1000

MsPerDay == 86400000

NoTime == [ ok |-> FALSE ]

\* a - b for two datetimes, in milliseconds
Elapsed(a, b) == (a.day - b.day) * MsPerDay + (a.ms - b.ms)

\* a < b for two datetimes
Earlier(a, b) == a.day < b.day \/ (a.day = b.day /\ a.ms < b.ms)

\* the directives of strptime on the two characters a, b of a field of a
\* timestamp_str: the regular expressions of _strptime name the first digit,
\* and for some first digits the second, in ASCII.  %m: 1[0-2]|0[1-9]
DirectiveMonth(a, b) ==
    \/ a = 49 (* 1 *) /\ b \in { 48 (* 0 *), 49 (* 1 *), 50 (* 2 *) }
    \/ a = 48 (* 0 *) /\ IsAsciiDigit(b) /\ b # 48 (* 0 *)

\* %d: 3[0-1]|[1-2]\d|0[1-9]
DirectiveDay(a, b) ==
    \/ a = 51 (* 3 *) /\ b \in { 48 (* 0 *), 49 (* 1 *) }
    \/ a \in { 49 (* 1 *), 50 (* 2 *) } /\ IsDigit(b)
    \/ a = 48 (* 0 *) /\ IsAsciiDigit(b) /\ b # 48 (* 0 *)

\* %H: 2[0-3]|[0-1]\d
DirectiveHour(a, b) ==
    \/ a = 50 (* 2 *) /\ b \in { 48 (* 0 *), 49 (* 1 *), 50 (* 2 *), 51 (* 3 *) }
    \/ a \in { 48 (* 0 *), 49 (* 1 *) } /\ IsDigit(b)

\* %M: [0-5]\d, and %S: 6[0-1]|[0-5]\d, of which datetime refuses 60 and 61
DirectiveSixty(a, b) == 48 (* 0 *) <= a /\ a <= 53 (* 5 *) /\ IsDigit(b)

\* the regular expression strptime makes of '%Y-%m-%d %H:%M:%S.%f' matches
\* the timestamp_str ts: %Y is \d\d\d\d and %f is [0-9]{1,6}
DirectivesMatch(ts) ==
    /\ DirectiveMonth(ts[6], ts[7])
    /\ DirectiveDay(ts[9], ts[10])
    /\ DirectiveHour(ts[12], ts[13])
    /\ DirectiveSixty(ts[15], ts[16])
    /\ DirectiveSixty(ts[18], ts[19])
    /\ \A k \in 21..23 : IsAsciiDigit(ts[k])

\* datetime.strptime(timestamp_str, '%Y-%m-%d %H:%M:%S.%f') of a timestamp_str
\* the three formats give, which has the 23 characters of TimestampAt; ok is
\* FALSE where strptime raises ValueError
strptime_f(ts) ==
    IF ~(Len(ts) = TimestampLen /\ TimestampAt(ts, 1) /\ DirectivesMatch(ts)) THEN NoTime
    ELSE
    LET y  == Number(ts, 1, 4)
        mo == Number(ts, 6, 7)
        d  == Number(ts, 9, 10)
        h  == Number(ts, 12, 13)
        mi == Number(ts, 15, 16)
        s  == Number(ts, 18, 19)
        ms == Number(ts, 21, 23)
    IN  IF /\ y >= 1
           /\ mo \in 1..12
           /\ d >= 1 /\ d <= DaysInMonth(y, mo)
           /\ h <= 23 /\ mi <= 59 /\ s <= 59
        THEN [ ok |-> TRUE,
               value |-> [ day |-> Ordinal(y, mo, d),
                           ms  |-> ((h * 60 + mi) * 60 + s) * MsPerSecond + ms ] ]
        ELSE NoTime

\* datetime.strptime(timestamp_str, '%Y-%m-%d %H:%M:%S'): the format has no
\* fraction, so the whole string must be YYYY-MM-DD HH:MM:SS
strptime_s(ts) ==
    IF Len(ts) # TimestampLen - 4 THEN NoTime
    ELSE strptime_f(ts \o <<46,48,48,48>> (* .000 *))

\* the try/except chain of lines 157-164
ParseTimestamp(ts) ==
    IF strptime_f(ts).ok THEN strptime_f(ts) ELSE strptime_s(ts)

(***************************************************************************)
(* Source and category of a line                                           *)
(***************************************************************************)
UNIPLAYSONG == "UniPlaySong"

PLAYNITESOUND == "PlayniteSound"

UNKNOWN == "Unknown"

\* the value of an ExtensionType, as text
ExtensionName(x) ==
    IF x = UNIPLAYSONG THEN <<85,110,105,80,108,97,121,83,111,110,103>> (* UniPlaySong *)
    ELSE IF x = PLAYNITESOUND THEN <<80,108,97,121,110,105,116,101,83,111,117,110,100>> (* PlayniteSound *)
    ELSE <<85,110,107,110,111,119,110>> (* Unknown *)

Bracketed(s) == <<91 (* [ *)>> \o s \o <<93 (* ] *)>>

\* the extension name the bracketed and the simple format take from the text
NameFromText(text) ==
    IF \/ Contains(Bracketed(ExtensionName(UNIPLAYSONG)), text)
       \/ Contains(ExtensionName(UNIPLAYSONG), text)
    THEN ExtensionName(UNIPLAYSONG)
    ELSE IF \/ Contains(Bracketed(ExtensionName(PLAYNITESOUND)), text)
            \/ Contains(ExtensionName(PLAYNITESOUND), text)
         THEN ExtensionName(PLAYNITESOUND)
         ELSE ExtensionName(UNKNOWN)

\* "Determine extension type", lines 166-172
DetermineExtension(extension_name, message) ==
    IF \/ Contains(ExtensionName(UNIPLAYSONG), extension_name)
       \/ Contains(Bracketed(ExtensionName(UNIPLAYSONG)), message)
    THEN UNIPLAYSONG
    ELSE IF \/ Contains(ExtensionName(PLAYNITESOUND), extension_name)
            \/ Contains(Bracketed(ExtensionName(PLAYNITESOUND)), message)
         THEN PLAYNITESOUND
         ELSE UNKNOWN

\* the values of EventType
ON_GAME_SELECTED == "OnGameSelected"

ON_APPLICATION_STARTED == "OnApplicationStarted"

ON_SETTINGS_CHANGED == "OnSettingsChanged"

VIDEO_IS_PLAYING_CHANGED == "VideoIsPlaying"

SHOULD_PLAY_MUSIC == "ShouldPlayMusic"

SHOULD_PLAY_AUDIO == "ShouldPlayAudio"

PLAY_MUSIC_BASED_ON_SELECTED == "PlayMusicBasedOnSelected"

PAUSE_MUSIC == "PauseMusic"

RESUME_MUSIC == "ResumeMusic"

FIRST_SELECT_STATE == "_firstSelect"

MEDIA_ELEMENTS_MONITOR == "MediaElementsMonitor"

ON_MAIN_MODEL_CHANGED == "OnMainModelChanged"

OTHER_EVENT == "Other"

EventType ==
    { ON_GAME_SELECTED, ON_APPLICATION_STARTED, ON_SETTINGS_CHANGED,
      VIDEO_IS_PLAYING_CHANGED, SHOULD_PLAY_MUSIC, SHOULD_PLAY_AUDIO,
      PLAY_MUSIC_BASED_ON_SELECTED, PAUSE_MUSIC, RESUME_MUSIC,
      FIRST_SELECT_STATE, MEDIA_ELEMENTS_MONITOR, ON_MAIN_MODEL_CHANGED, OTHER_EVENT }

ExtensionType == { UNIPLAYSONG, PLAYNITESOUND, UNKNOWN }

\* _classify_event with the rule of ResumeMusic tested before all others
_classify_event_ResumeFirst(message) ==
    LET message_lower == Lower(message)
    IN  IF \/ Contains(<<114,101,115,117,109,101,109,117,115,105,99>> (* resumemusic *), message_lower)
           \/ Contains(<<114,101,115,117,109,101,32,109,117,115,105,99>> (* resume music *), message_lower)
        THEN RESUME_MUSIC
        ELSE IF \/ Contains(<<111,110,103,97,109,101,115,101,108,101,99,116,101,100>> (* ongameselected *), message_lower)
                \/ Contains(<<111,110,32,103,97,109,101,32,115,101,108,101,99,116,101,100>> (* on game selected *), message_lower)
        THEN ON_GAME_SELECTED
        ELSE IF \/ Contains(<<111,110,97,112,112,108,105,99,97,116,105,111,110,115,116,97,114,116,101,100>> (* onapplicationstarted *), message_lower)
                \/ Contains(<<97,112,112,108,105,99,97,116,105,111,110,32,115,116,97,114,116,101,100>> (* application started *), message_lower)
        THEN ON_APPLICATION_STARTED
        ELSE IF \/ Contains(<<111,110,115,101,116,116,105,110,103,115,99,104,97,110,103,101,100>> (* onsettingschanged *), message_lower)
                \/ Contains(<<111,110,32,115,101,116,116,105,110,103,115,32,99,104,97,110,103,101,100>> (* on settings changed *), message_lower)
        THEN ON_SETTINGS_CHANGED
        ELSE IF \/ Contains(<<118,105,100,101,111,105,115,112,108,97,121,105,110,103>> (* videoisplaying *), message_lower)
                \/ Contains(<<118,105,100,101,111,32,105,115,32,112,108,97,121,105,110,103>> (* video is playing *), message_lower)
        THEN VIDEO_IS_PLAYING_CHANGED
        ELSE IF \/ Contains(<<115,104,111,117,108,100,112,108,97,121,109,117,115,105,99>> (* shouldplaymusic *), message_lower)
                \/ Contains(<<115,104,111,117,108,100,32,112,108,97,121,32,109,117,115,105,99>> (* should play music *), message_lower)
        THEN SHOULD_PLAY_MUSIC
        ELSE IF \/ Contains(<<115,104,111,117,108,100,112,108,97,121,97,117,100,105,111>> (* shouldplayaudio *), message_lower)
                \/ Contains(<<115,104,111,117,108,100,32,112,108,97,121,32,97,117,100,105,111>> (* should play audio *), message_lower)
        THEN SHOULD_PLAY_AUDIO
        ELSE IF Contains(<<112,108,97,121,109,117,115,105,99,98,97,115,101,100,111,110,115,101,108,101,99,116,101,100>> (* playmusicbasedonselected *), message_lower)
        THEN PLAY_MUSIC_BASED_ON_SELECTED
        ELSE IF \/ Contains(<<112,97,117,115,101,109,117,115,105,99>> (* pausemusic *), message_lower)
                \/ Contains(<<112,97,117,115,101,32,109,117,115,105,99>> (* pause music *), message_lower)
        THEN PAUSE_MUSIC
        ELSE IF \/ Contains(<<102,105,114,115,116,115,101,108,101,99,116>> (* firstselect *), message_lower)
                \/ Contains(<<95,102,105,114,115,116,115,101,108,101,99,116>> (* _firstselect *), message_lower)
                \/ Contains(<<102,105,114,115,116,32,115,101,108,101,99,116>> (* first select *), message_lower)
        THEN FIRST_SELECT_STATE
        ELSE IF \/ Contains(<<109,101,100,105,97,101,108,101,109,101,110,116,115,109,111,110,105,116,111,114>> (* mediaelementsmonitor *), message_lower)
                \/ Contains(<<109,101,100,105,97,32,101,108,101,109,101,110,116,115,32,109,111,110,105,116,111,114>> (* media elements monitor *), message_lower)
        THEN MEDIA_ELEMENTS_MONITOR
        ELSE IF \/ Contains(<<111,110,109,97,105,110,109,111,100,101,108,99,104,97,110,103,101,100>> (* onmainmodelchanged *), message_lower)
                \/ Contains(<<111,110,32,109,97,105,110,32,109,111,100,101,108,32,99,104,97,110,103,101,100>> (* on main model changed *), message_lower)
        THEN ON_MAIN_MODEL_CHANGED
        ELSE OTHER_EVENT

_classify_event(message) ==
    LET message_lower == Lower(message)
    IN  IF \/ Contains(<<111,110,103,97,109,101,115,101,108,101,99,116,101,100>> (* ongameselected *), message_lower)
           \/ Contains(<<111,110,32,103,97,109,101,32,115,101,108,101,99,116,101,100>> (* on game selected *), message_lower)
        THEN ON_GAME_SELECTED
        ELSE IF \/ Contains(<<111,110,97,112,112,108,105,99,97,116,105,111,110,115,116,97,114,116,101,100>> (* onapplicationstarted *), message_lower)
                \/ Contains(<<97,112,112,108,105,99,97,116,105,111,110,32,115,116,97,114,116,101,100>> (* application started *), message_lower)
        THEN ON_APPLICATION_STARTED
        ELSE IF \/ Contains(<<111,110,115,101,116,116,105,110,103,115,99,104,97,110,103,101,100>> (* onsettingschanged *), message_lower)
                \/ Contains(<<111,110,32,115,101,116,116,105,110,103,115,32,99,104,97,110,103,101,100>> (* on settings changed *), message_lower)
        THEN ON_SETTINGS_CHANGED
        ELSE IF \/ Contains(<<118,105,100,101,111,105,115,112,108,97,121,105,110,103>> (* videoisplaying *), message_lower)
                \/ Contains(<<118,105,100,101,111,32,105,115,32,112,108,97,121,105,110,103>> (* video is playing *), message_lower)
        THEN VIDEO_IS_PLAYING_CHANGED
        ELSE IF \/ Contains(<<115,104,111,117,108,100,112,108,97,121,109,117,115,105,99>> (* shouldplaymusic *), message_lower)
                \/ Contains(<<115,104,111,117,108,100,32,112,108,97,121,32,109,117,115,105,99>> (* should play music *), message_lower)
        THEN SHOULD_PLAY_MUSIC
        ELSE IF \/ Contains(<<115,104,111,117,108,100,112,108,97,121,97,117,100,105,111>> (* shouldplayaudio *), message_lower)
                \/ Contains(<<115,104,111,117,108,100,32,112,108,97,121,32,97,117,100,105,111>> (* should play audio *), message_lower)
        THEN SHOULD_PLAY_AUDIO
        ELSE IF Contains(<<112,108,97,121,109,117,115,105,99,98,97,115,101,100,111,110,115,101,108,101,99,116,101,100>> (* playmusicbasedonselected *), message_lower)
        THEN PLAY_MUSIC_BASED_ON_SELECTED
        ELSE IF \/ Contains(<<112,97,117,115,101,109,117,115,105,99>> (* pausemusic *), message_lower)
                \/ Contains(<<112,97,117,115,101,32,109,117,115,105,99>> (* pause music *), message_lower)
        THEN PAUSE_MUSIC
        ELSE IF \/ Contains(<<114,101,115,117,109,101,109,117,115,105,99>> (* resumemusic *), message_lower)
                \/ Contains(<<114,101,115,117,109,101,32,109,117,115,105,99>> (* resume music *), message_lower)
        THEN RESUME_MUSIC
        ELSE IF \/ Contains(<<102,105,114,115,116,115,101,108,101,99,116>> (* firstselect *), message_lower)
                \/ Contains(<<95,102,105,114,115,116,115,101,108,101,99,116>> (* _firstselect *), message_lower)
                \/ Contains(<<102,105,114,115,116,32,115,101,108,101,99,116>> (* first select *), message_lower)
        THEN FIRST_SELECT_STATE
        ELSE IF \/ Contains(<<109,101,100,105,97,101,108,101,109,101,110,116,115,109,111,110,105,116,111,114>> (* mediaelementsmonitor *), message_lower)
                \/ Contains(<<109,101,100,105,97,32,101,108,101,109,101,110,116,115,32,109,111,110,105,116,111,114>> (* media elements monitor *), message_lower)
        THEN MEDIA_ELEMENTS_MONITOR
        ELSE IF \/ Contains(<<111,110,109,97,105,110,109,111,100,101,108,99,104,97,110,103,101,100>> (* onmainmodelchanged *), message_lower)
                \/ Contains(<<111,110,32,109,97,105,110,32,109,111,100,101,108,32,99,104,97,110,103,101,100>> (* on main model changed *), message_lower)
        THEN ON_MAIN_MODEL_CHANGED
        ELSE OTHER_EVENT

(***************************************************************************)
(* _extract_metadata: each field is  Name[:\s]+value  searched in the      *)
(* message without regard to case                                          *)
(***************************************************************************)
\* [:\s]
IsSep(c) == c = 58 (* : *) \/ IsSpace(c)

\* the position after a greedy [:\s]* that starts at position i
SkipSep(s, i) ==
    CHOOSE j \in i..(Len(s) + 1) :
        /\ \A k \in i..(j - 1) : IsSep(s[k])
        /\ (j <= Len(s) => ~IsSep(s[j]))

\* the characters re.IGNORECASE takes for an ASCII letter beside its two
\* cases, as <<lower-case letter, character>>: the dotted capital I and the
\* dotless i for i, the Kelvin sign for k, the long s for s
IgnoreCaseExtra ==
    { <<105 (* i *), 304 (* \u0130 *)>>, <<105 (* i *), 305 (* \u0131 *)>>,
      <<107 (* k *), 8490 (* \u212A *)>>, <<115 (* s *), 383 (* \u017F *)>> }

\* re.IGNORECASE: the character c matches the character l of a pattern, l
\* being ASCII and in lower case if a letter
SameIgnoringCase(c, l) ==
    \/ c = l
    \/ 97 <= l /\ l <= 122 /\ c = l - 32
    \/ <<l, c>> \in IgnoreCaseExtra

\* the text lit, given in lower case, is at position i of s in any case
MatchAt(lit, s, i) ==
    /\ i >= 1
    /\ i + Len(lit) - 1 <= Len(s)
    /\ \A k \in 1..Len(lit) : SameIgnoringCase(s[i + k - 1], lit[k])

\* the values: the position after the value that starts at position b, or 0
\* when no value starts there.  (true|false)
BoolAt(s, b) ==
    IF MatchAt(<<116,114,117,101>> (* true *), s, b) THEN b + 4
    ELSE IF MatchAt(<<102,97,108,115,101>> (* false *), s, b) THEN b + 5
    ELSE 0

\* (true|false|changing from \w+ to \w+)
VideoValueAt(s, b) ==
    IF BoolAt(s, b) # 0 THEN BoolAt(s, b)
    ELSE IF ~MatchAt(<<99,104,97,110,103,105,110,103,32,102,114,111,109,32>> (* changing from  *), s, b) THEN 0
    ELSE LET w1 == b + 14
             e1 == SkipWord(s, w1)
             w2 == e1 + 4
             e2 == SkipWord(s, w2)
         IN  IF e1 > w1 /\ MatchAt(<<32,116,111,32>> (*  to  *), s, e1) /\ e2 > w2 THEN e2 ELSE 0

\* the position after a greedy run, from position b, of characters not in stop
SkipUntil(s, b, stop) ==
    CHOOSE j \in b..(Len(s) + 1) :
        /\ \A k \in b..(j - 1) : s[k] \notin stop
        /\ (j <= Len(s) => s[j] \in stop)

\* the characters [^,\(] leaves out
GameStops == { 44 (* , *), 40 (* ( *) }

\* the characters [^\s,] leaves out
ViewStops == SpaceChars \cup { 44 (* , *) }

\* ([^,\(]+)
GameValueAt(s, b) ==
    IF b <= Len(s) /\ s[b] \notin GameStops THEN SkipUntil(s, b, GameStops) ELSE 0

\* ([^\s,]+)
ViewValueAt(s, b) ==
    IF b <= Len(s) /\ s[b] \notin ViewStops THEN SkipUntil(s, b, ViewStops) ELSE 0

\* (Desktop|Fullscreen)
ModeValueAt(s, b) ==
    IF MatchAt(<<100,101,115,107,116,111,112>> (* desktop *), s, b) THEN b + 7
    ELSE IF MatchAt(<<102,117,108,108,115,99,114,101,101,110>> (* fullscreen *), s, b) THEN b + 10
    ELSE 0

\* the position of the (true|false) of  (returned|returned:)\s*(true|false)
\* that starts at position b, or 0
ReturnedBoolAt(s, b) ==
    IF ~MatchAt(<<114,101,116,117,114,110,101,100>> (* returned *), s, b) THEN 0
    ELSE LET q1 == SkipSpace(s, b + 8)
             q2 == SkipSpace(s, b + 9)
         IN  IF BoolAt(s, q1) # 0 THEN q1
             ELSE IF CharAt(s, b + 8, 58 (* : *)) /\ BoolAt(s, q2) # 0 THEN q2
             ELSE 0

ReturnedValueAt(s, b) ==
    IF ReturnedBoolAt(s, b) = 0 THEN 0 ELSE BoolAt(s, ReturnedBoolAt(s, b))

\* the keys of the metadata
MetadataFields ==
    { "firstSelect", "skipMusic", "videoIsPlaying", "game", "activeView", "mode",
      "shouldPlayMusic", "shouldPlayAudio" }

\* the name the pattern of a field starts with, in lower case
FieldName(field) ==
    IF field = "firstSelect" THEN <<102,105,114,115,116,115,101,108,101,99,116>> (* firstselect *)
    ELSE IF field = "skipMusic" THEN <<115,107,105,112,109,117,115,105,99>> (* skipmusic *)
    ELSE IF field = "videoIsPlaying" THEN <<118,105,100,101,111,105,115,112,108,97,121,105,110,103>> (* videoisplaying *)
    ELSE IF field = "game" THEN <<103,97,109,101>> (* game *)
    ELSE IF field = "activeView" THEN <<97,99,116,105,118,101,118,105,101,119>> (* activeview *)
    ELSE IF field = "mode" THEN <<109,111,100,101>> (* mode *)
    ELSE IF field = "shouldPlayMusic" THEN <<115,104,111,117,108,100,112,108,97,121,109,117,115,105,99>> (* shouldplaymusic *)
    ELSE <<115,104,111,117,108,100,112,108,97,121,97,117,100,105,111>> (* shouldplayaudio *)

\* the position after the value of a field that starts at position b, or 0
ValueAt(field, s, b) ==
    IF field \in { "firstSelect", "skipMusic" } THEN BoolAt(s, b)
    ELSE IF field = "videoIsPlaying" THEN VideoValueAt(s, b)
    ELSE IF field = "game" THEN GameValueAt(s, b)
    ELSE IF field = "activeView" THEN ViewValueAt(s, b)
    ELSE IF field = "mode" THEN ModeValueAt(s, b)
    ELSE ReturnedValueAt(s, b)

\* where the value of a field can start when its name is at position a:
\* after one or more of [:\s], the more the better
ValueStarts(field, s, a) ==
    IF ~MatchAt(FieldName(field), s, a) THEN {}
    ELSE { b \in (a + Len(FieldName(field)) + 1)..SkipSep(s, a + Len(FieldName(field))) :
             ValueAt(field, s, b) # 0 }

Least(S) == CHOOSE x \in S : \A y \in S : x <= y

Greatest(S) == CHOOSE x \in S : \A y \in S : y <= x

\* the positions of s at which the pattern of a field matches
MatchStarts(field, s) == { a \in DOMAIN s : ValueStarts(field, s, a) # {} }

\* the match whose value starts at position b
MatchWithValueAt(field, s, b) ==
    [ found |-> TRUE, from |-> b, to |-> ValueAt(field, s, b) ]

\* the match at the leftmost of the positions starts: [:\s]+ is greedy, so
\* the value starts as late as it can
LeftmostMatch(field, s, starts) ==
    IF starts = {} THEN [ found |-> FALSE ]
    ELSE MatchWithValueAt(field, s, Greatest(ValueStarts(field, s, Least(starts))))

\* re.search of the pattern of a field: the leftmost match, as
\* [found, from, to], the value being s[from..to-1]
SearchField(field, s) == LeftmostMatch(field, s, MatchStarts(field, s))

\* the text of a found value
Group(s, m) == SubSeq(s, m.from, m.to - 1)

\* group.lower() == 'true'
IsTrue(text) == Lower(text) = <<116,114,117,101>> (* true *)

\* what the metadata holds for a field that was found
ValueOfMatch(field, message, m) ==
    IF field \in { "firstSelect", "skipMusic" } THEN IsTrue(Group(message, m))
    ELSE IF field = "game" THEN Strip(Group(message, m))
    ELSE IF field \in { "videoIsPlaying", "activeView", "mode" } THEN Group(message, m)
    ELSE IsTrue(SubSeq(message, ReturnedBoolAt(message, m.from), m.to - 1))

\* the value the metadata holds for a field whose pattern matches
FieldValue(field, message) == ValueOfMatch(field, message, SearchField(field, message))

_extract_metadata(message) ==
    [ field \in { k \in MetadataFields : SearchField(k, message).found } |->
        FieldValue(field, message) ]

(***************************************************************************)
(* One line of a log file, lines 117-191                                   *)
(***************************************************************************)
NoFields == [ matched |-> FALSE ]

\* the fields of a line of the FileLogger format, lines 129-136
FieldsOfFileLogger(m) ==
    [ matched        |-> TRUE,
      timestamp_str  |-> m.timestamp_str,
      level          |-> m.level,
      extension_name |-> NameFromText(m.message),
      message        |-> m.message ]

\* the fields of a line of the simple format, lines 141-152
FieldsOfSimple(m) ==
    [ matched        |-> TRUE,
      timestamp_str  |-> m.timestamp_str,
      level          |-> <<73,78,70,79>> (* INFO *),
      extension_name |-> NameFromText(m.rest),
      message        |-> m.rest ]

\* the fields of the first of the three matches that matched
FirstMatch(standard, filelogger, simple) ==
    IF standard.matched THEN standard
    ELSE IF filelogger.matched THEN FieldsOfFileLogger(filelogger)
    ELSE IF simple.matched THEN FieldsOfSimple(simple)
    ELSE NoFields

\* the cascade of the three formats: timestamp_str, level, extension_name
\* and message of a stripped line, or no match
MatchLine(line) ==
    FirstMatch(log_pattern(line), filelogger_pattern(line), simple_pattern(line))

NoEvent == [ created |-> FALSE ]

\* IsSkipped with the check of the unknown extension left out
IsSkipped_Never(extension) == FALSE

\* "Skip unknown extensions", lines 174-176
IsSkipped(extension) == extension = UNKNOWN

\* lines 174-191: the LogEvent of a line, unless its extension is skipped
EventOf(line, f, t, extension) ==
    IF IsSkipped(extension) THEN NoEvent
    ELSE [ created |-> TRUE,
           event   |-> [ timestamp  |-> t.value,
                         extension  |-> extension,
                         event_type |-> _classify_event(f.message),
                         message    |-> f.message,
                         raw_line   |-> line,
                         metadata   |-> _extract_metadata(f.message) ] ]

\* lines 157-172: a line whose timestamp_str was parsed to t
ParseTimed(line, f, t) ==
    IF ~t.ok THEN NoEvent
    ELSE EventOf(line, f, t, DetermineExtension(f.extension_name, f.message))

\* lines 122-164: a line whose fields are f
ParseMatched(line, f) ==
    IF ~f.matched THEN NoEvent
    ELSE ParseTimed(line, f, ParseTimestamp(f.timestamp_str))

\* lines 118-155: a stripped line
ParseStripped(line) ==
    IF line = <<>> THEN NoEvent
    ELSE ParseMatched(line, MatchLine(line))

\* the body of the loop over the lines for one raw line: the LogEvent it
\* creates, or NoEvent where the body reaches a continue
ParseLine(raw) == ParseStripped(Strip(raw))

(***************************************************************************)
(* The lines the model reads                                               *)
(***************************************************************************)
LineTabularA == <<50,48,50,52,45,48,49,45,48,49,32,49,48,58,48,48,58,48,48,46,48,48,48,32,124,32,73,78,70,79,32,124,32,85,110,105,80,108,97,121,83,111,110,103,32,124,32,79,110,71,97,109,101,83,101,108,101,99,116,101,100,32,71,97,109,101,58,32,70,111,111>> (* 2024-01-01 10:00:00.000 | INFO | UniPlaySong | OnGameSelected Game: Foo *)

LineTabularB == <<50,48,50,52,45,48,49,45,48,49,32,49,48,58,48,48,58,48,48,46,48,53,48,32,124,32,73,78,70,79,32,124,32,80,108,97,121,110,105,116,101,83,111,117,110,100,32,124,32,79,110,71,97,109,101,83,101,108,101,99,116,101,100,32,71,97,109,101,58,32,70,111,111>> (* 2024-01-01 10:00:00.050 | INFO | PlayniteSound | OnGameSelected Game: Foo *)

LineBracketedA == <<32,32,91,50,48,50,52,45,48,49,45,48,49,32,48,57,58,53,57,58,53,57,46,56,48,48,93,32,91,68,69,66,85,71,93,32,91,85,110,105,80,108,97,121,83,111,110,103,93,32,95,102,105,114,115,116,83,101,108,101,99,116,58,32,102,97,108,115,101>> (*   [2024-01-01 09:59:59.800] [DEBUG] [UniPlaySong] _firstSelect: false *)

LineBareB == <<50,48,50,52,45,48,49,45,48,49,32,48,57,58,53,57,58,53,57,46,57,48,48,32,80,108,97,121,110,105,116,101,83,111,117,110,100,32,86,105,100,101,111,73,115,80,108,97,121,105,110,103,58,32,116,114,117,101,9>> (* 2024-01-01 09:59:59.900 PlayniteSound VideoIsPlaying: true\t *)

LineUnknown == <<50,48,50,52,45,48,49,45,48,49,32,49,48,58,48,48,58,48,48,46,52,48,48,32,124,32,73,78,70,79,32,124,32,80,108,97,121,110,105,116,101,32,124,32,65,112,112,108,105,99,97,116,105,111,110,32,115,116,97,114,116,101,100>> (* 2024-01-01 10:00:00.400 | INFO | Playnite | Application started *)

LineGarbage == <<103,97,114,98,97,103,101,32,116,101,120,116>> (* garbage text *)

LineBadTimestamp == <<50,48,50,52,45,48,50,45,51,48,32,49,48,58,48,48,58,48,48,46,48,48,48,32,124,32,73,78,70,79,32,124,32,85,110,105,80,108,97,121,83,111,110,103,32,124,32,79,110,71,97,109,101,83,101,108,101,99,116,101,100,32,71,97,109,101,58,32,70,111,111>> (* 2024-02-30 10:00:00.000 | INFO | UniPlaySong | OnGameSelected Game: Foo *)

LineBlank == <<32,32>> (*    *)

\* a line as readlines() gives it, with its newline, that starts with a form
\* feed and has a year in Arabic-Indic digits, no-break spaces around the
\* level and a Kelvin sign for the k of SkipMusic
LineUnicode == <<12,1634,1632,1634,1636,45,48,49,45,48,49,32,49,48,58,48,48,58,48,48,46,50,48,48,160,124,160,73,78,70,79,32,124,32,80,108,97,121,110,105,116,101,83,111,117,110,100,32,124,32,83,8490,105,112,77,117,115,105,99,58,32,84,82,85,69,10>> (* \f\u0662\u0660\u0662\u0664-01-01 10:00:00.200\u00A0|\u00A0INFO | PlayniteSound | S\u212AipMusic: TRUE\n *)

Corpus ==
    { LineTabularA, LineTabularB, LineBracketedA, LineBareB, LineUnknown,
      LineGarbage, LineBadTimestamp, LineBlank, LineUnicode }

\* lines in the three formats whose source field and message name the
\* extensions in every combination
SourceMessages ==
    { <<115,116,97,114,116,101,100>> (* started *),
      <<91,85,110,105,80,108,97,121,83,111,110,103,93,32,115,116,97,114,116,101,100>> (* [UniPlaySong] started *),
      <<91,80,108,97,121,110,105,116,101,83,111,117,110,100,93,32,115,116,97,114,116,101,100>> (* [PlayniteSound] started *),
      <<85,110,105,80,108,97,121,83,111,110,103,32,115,116,97,114,116,101,100>> (* UniPlaySong started *),
      <<80,108,97,121,110,105,116,101,83,111,117,110,100,32,115,116,97,114,116,101,100>> (* PlayniteSound started *),
      <<91,80,108,97,121,110,105,116,101,83,111,117,110,100,93,32,97,102,116,101,114,32,85,110,105,80,108,97,121,83,111,110,103>> (* [PlayniteSound] after UniPlaySong *) }

SourceFields ==
    { <<85,110,105,80,108,97,121,83,111,110,103>> (* UniPlaySong *), <<80,108,97,121,110,105,116,101,83,111,117,110,100>> (* PlayniteSound *), <<80,108,97,121,110,105,116,101>> (* Playnite *), <<80,108,97,121,110,105,116,101,83,111,117,110,100,46,80,108,97,121,101,114>> (* PlayniteSound.Player *) }

SourceCorpus ==
    { <<50,48,50,52,45,48,49,45,48,49,32,49,48,58,48,48,58,48,48,46,48,48,48,32,124,32,73,78,70,79,32,124,32>> (* 2024-01-01 10:00:00.000 | INFO |  *) \o f \o <<32,124,32>> (*  |  *) \o m :
          f \in SourceFields, m \in SourceMessages }
      \cup { <<91,50,48,50,52,45,48,49,45,48,49,32,49,48,58,48,48,58,48,48,46,48,48,48,93,32,91,73,78,70,79,93,32>> (* [2024-01-01 10:00:00.000] [INFO]  *) \o m : m \in SourceMessages }
      \cup { <<50,48,50,52,45,48,49,45,48,49,32,49,48,58,48,48,58,48,48,46,48,48,48,32>> (* 2024-01-01 10:00:00.000  *) \o m : m \in SourceMessages }

\* the keywords as the extensions write them, one spelling per category
\* and the spaced spellings
CompactSpellings ==
    { <<79,110,71,97,109,101,83,101,108,101,99,116,101,100>> (* OnGameSelected *), <<79,110,65,112,112,108,105,99,97,116,105,111,110,83,116,97,114,116,101,100>> (* OnApplicationStarted *), <<79,110,83,101,116,116,105,110,103,115,67,104,97,110,103,101,100>> (* OnSettingsChanged *),
      <<86,105,100,101,111,73,115,80,108,97,121,105,110,103>> (* VideoIsPlaying *), <<83,104,111,117,108,100,80,108,97,121,77,117,115,105,99>> (* ShouldPlayMusic *), <<83,104,111,117,108,100,80,108,97,121,65,117,100,105,111>> (* ShouldPlayAudio *),
      <<80,108,97,121,77,117,115,105,99,66,97,115,101,100,79,110,83,101,108,101,99,116,101,100>> (* PlayMusicBasedOnSelected *), <<80,97,117,115,101,77,117,115,105,99>> (* PauseMusic *), <<82,101,115,117,109,101,77,117,115,105,99>> (* ResumeMusic *),
      <<95,102,105,114,115,116,83,101,108,101,99,116>> (* _firstSelect *), <<77,101,100,105,97,69,108,101,109,101,110,116,115,77,111,110,105,116,111,114>> (* MediaElementsMonitor *), <<79,110,77,97,105,110,77,111,100,101,108,67,104,97,110,103,101,100>> (* OnMainModelChanged *) }

SpacedSpellings ==
    { <<79,110,32,71,97,109,101,32,83,101,108,101,99,116,101,100>> (* On Game Selected *), <<65,112,112,108,105,99,97,116,105,111,110,32,115,116,97,114,116,101,100>> (* Application started *), <<79,110,32,83,101,116,116,105,110,103,115,32,67,104,97,110,103,101,100>> (* On Settings Changed *),
      <<86,105,100,101,111,32,105,115,32,112,108,97,121,105,110,103>> (* Video is playing *), <<83,104,111,117,108,100,32,80,108,97,121,32,77,117,115,105,99>> (* Should Play Music *), <<115,104,111,117,108,100,32,112,108,97,121,32,97,117,100,105,111>> (* should play audio *),
      <<80,97,117,115,101,32,109,117,115,105,99>> (* Pause music *), <<82,69,83,85,77,69,32,77,85,83,73,67>> (* RESUME MUSIC *), <<70,105,114,115,116,83,101,108,101,99,116>> (* FirstSelect *), <<70,105,114,115,116,32,115,101,108,101,99,116>> (* First select *),
      <<77,101,100,105,97,32,69,108,101,109,101,110,116,115,32,77,111,110,105,116,111,114>> (* Media Elements Monitor *), <<111,110,32,109,97,105,110,32,109,111,100,101,108,32,99,104,97,110,103,101,100>> (* on main model changed *),
      <<77,117,115,105,99,32,118,111,108,117,109,101,32,115,101,116>> (* Music volume set *), <<>> (*  *) }

\* lines of UniPlaySong whose message holds one keyword, two keywords in
\* either order, or none
ClassifyCorpus ==
    { <<50,48,50,52,45,48,49,45,48,49,32,49,48,58,48,48,58,48,48,46,48,48,48,32,124,32,73,78,70,79,32,124,32,85,110,105,80,108,97,121,83,111,110,103,32,124,32>> (* 2024-01-01 10:00:00.000 | INFO | UniPlaySong |  *) \o a \o <<32,97,102,116,101,114,32>> (*  after  *) \o b :
          a \in CompactSpellings, b \in CompactSpellings }
      \cup { <<50,48,50,52,45,48,49,45,48,49,32,49,48,58,48,48,58,48,48,46,48,48,48,32,124,32,73,78,70,79,32,124,32,85,110,105,80,108,97,121,83,111,110,103,32,124,32,72,97,110,100,108,105,110,103,32>> (* 2024-01-01 10:00:00.000 | INFO | UniPlaySong | Handling  *) \o a :
                 a \in SpacedSpellings }

\* game selections of the two extensions 0, 1, 50, 100, 101, 151 and 201 ms
\* apart, either of the two being the earlier at each of 50, 100 and 101 ms,
\* and a change of VideoIsPlaying of each
CompareCorpus ==
    { <<50,48,50,52,45,48,49,45,48,49,32,49,48,58,48,48,58,48,48,46,48,48,48,32,124,32,73,78,70,79,32,124,32,85,110,105,80,108,97,121,83,111,110,103,32,124,32,79,110,71,97,109,101,83,101,108,101,99,116,101,100,32,71,97,109,101,58,32,70,111,111>> (* 2024-01-01 10:00:00.000 | INFO | UniPlaySong | OnGameSelected Game: Foo *),
      <<50,48,50,52,45,48,49,45,48,49,32,49,48,58,48,48,58,48,48,46,49,48,48,32,124,32,73,78,70,79,32,124,32,85,110,105,80,108,97,121,83,111,110,103,32,124,32,79,110,71,97,109,101,83,101,108,101,99,116,101,100,32,71,97,109,101,58,32,66,97,114>> (* 2024-01-01 10:00:00.100 | INFO | UniPlaySong | OnGameSelected Game: Bar *),
      <<50,48,50,52,45,48,49,45,48,49,32,49,48,58,48,48,58,48,48,46,50,48,49,32,124,32,73,78,70,79,32,124,32,85,110,105,80,108,97,121,83,111,110,103,32,124,32,79,110,71,97,109,101,83,101,108,101,99,116,101,100,32,71,97,109,101,58,32,66,97,122>> (* 2024-01-01 10:00:00.201 | INFO | UniPlaySong | OnGameSelected Game: Baz *),
      <<50,48,50,52,45,48,49,45,48,49,32,49,48,58,48,48,58,48,48,46,48,48,48,32,124,32,73,78,70,79,32,124,32,80,108,97,121,110,105,116,101,83,111,117,110,100,32,124,32,79,110,71,97,109,101,83,101,108,101,99,116,101,100,32,71,97,109,101,58,32,70,111,111>> (* 2024-01-01 10:00:00.000 | INFO | PlayniteSound | OnGameSelected Game: Foo *),
      <<50,48,50,52,45,48,49,45,48,49,32,49,48,58,48,48,58,48,48,46,48,53,48,32,124,32,73,78,70,79,32,124,32,80,108,97,121,110,105,116,101,83,111,117,110,100,32,124,32,79,110,71,97,109,101,83,101,108,101,99,116,101,100,32,71,97,109,101,58,32,70,111,111>> (* 2024-01-01 10:00:00.050 | INFO | PlayniteSound | OnGameSelected Game: Foo *),
      <<50,48,50,52,45,48,49,45,48,49,32,49,48,58,48,48,58,48,48,46,49,48,48,32,124,32,73,78,70,79,32,124,32,80,108,97,121,110,105,116,101,83,111,117,110,100,32,124,32,79,110,71,97,109,101,83,101,108,101,99,116,101,100,32,71,97,109,101,58,32,66,97,114>> (* 2024-01-01 10:00:00.100 | INFO | PlayniteSound | OnGameSelected Game: Bar *),
      <<50,48,50,52,45,48,49,45,48,49,32,49,48,58,48,48,58,48,48,46,49,48,49,32,124,32,73,78,70,79,32,124,32,80,108,97,121,110,105,116,101,83,111,117,110,100,32,124,32,79,110,71,97,109,101,83,101,108,101,99,116,101,100,32,71,97,109,101,58,32,66,97,114>> (* 2024-01-01 10:00:00.101 | INFO | PlayniteSound | OnGameSelected Game: Bar *),
      <<50,48,50,52,45,48,49,45,48,49,32,49,48,58,48,48,58,48,48,46,48,50,48,32,124,32,73,78,70,79,32,124,32,85,110,105,80,108,97,121,83,111,110,103,32,124,32,86,105,100,101,111,73,115,80,108,97,121,105,110,103,58,32,116,114,117,101>> (* 2024-01-01 10:00:00.020 | INFO | UniPlaySong | VideoIsPlaying: true *),
      <<50,48,50,52,45,48,49,45,48,49,32,49,48,58,48,48,58,48,48,46,48,49,48,32,124,32,73,78,70,79,32,124,32,80,108,97,121,110,105,116,101,83,111,117,110,100,32,124,32,86,105,100,101,111,73,115,80,108,97,121,105,110,103,58,32,116,114,117,101>> (* 2024-01-01 10:00:00.010 | INFO | PlayniteSound | VideoIsPlaying: true *) }

\* a game selection of UniPlaySong and changes of _firstSelect 10, 50, 100
\* and 500 ms after it and 50, 100 and 500 ms before it
SummaryCorpus ==
    { <<50,48,50,52,45,48,49,45,48,49,32,49,48,58,48,48,58,48,48,46,48,48,48,32,124,32,73,78,70,79,32,124,32,85,110,105,80,108,97,121,83,111,110,103,32,124,32,79,110,71,97,109,101,83,101,108,101,99,116,101,100,32,71,97,109,101,58,32,70,111,111>> (* 2024-01-01 10:00:00.000 | INFO | UniPlaySong | OnGameSelected Game: Foo *),
      <<50,48,50,52,45,48,49,45,48,49,32,48,57,58,53,57,58,53,57,46,57,53,48,32,124,32,73,78,70,79,32,124,32,85,110,105,80,108,97,121,83,111,110,103,32,124,32,95,102,105,114,115,116,83,101,108,101,99,116,58,32,102,97,108,115,101>> (* 2024-01-01 09:59:59.950 | INFO | UniPlaySong | _firstSelect: false *),
      <<50,48,50,52,45,48,49,45,48,49,32,48,57,58,53,57,58,53,57,46,57,48,48,32,124,32,73,78,70,79,32,124,32,85,110,105,80,108,97,121,83,111,110,103,32,124,32,95,102,105,114,115,116,83,101,108,101,99,116,58,32,102,97,108,115,101>> (* 2024-01-01 09:59:59.900 | INFO | UniPlaySong | _firstSelect: false *),
      <<50,48,50,52,45,48,49,45,48,49,32,48,57,58,53,57,58,53,57,46,53,48,48,32,124,32,73,78,70,79,32,124,32,85,110,105,80,108,97,121,83,111,110,103,32,124,32,95,102,105,114,115,116,83,101,108,101,99,116,58,32,102,97,108,115,101>> (* 2024-01-01 09:59:59.500 | INFO | UniPlaySong | _firstSelect: false *),
      <<50,48,50,52,45,48,49,45,48,49,32,49,48,58,48,48,58,48,48,46,48,49,48,32,124,32,73,78,70,79,32,124,32,85,110,105,80,108,97,121,83,111,110,103,32,124,32,95,102,105,114,115,116,83,101,108,101,99,116,58,32,116,114,117,101>> (* 2024-01-01 10:00:00.010 | INFO | UniPlaySong | _firstSelect: true *),
      <<50,48,50,52,45,48,49,45,48,49,32,49,48,58,48,48,58,48,48,46,48,53,48,32,124,32,73,78,70,79,32,124,32,85,110,105,80,108,97,121,83,111,110,103,32,124,32,95,102,105,114,115,116,83,101,108,101,99,116,58,32,70,97,108,115,101>> (* 2024-01-01 10:00:00.050 | INFO | UniPlaySong | _firstSelect: False *),
      <<50,48,50,52,45,48,49,45,48,49,32,49,48,58,48,48,58,48,48,46,49,48,48,32,124,32,73,78,70,79,32,124,32,85,110,105,80,108,97,121,83,111,110,103,32,124,32,95,102,105,114,115,116,83,101,108,101,99,116,58,32,102,97,108,115,101>> (* 2024-01-01 10:00:00.100 | INFO | UniPlaySong | _firstSelect: false *),
      <<50,48,50,52,45,48,49,45,48,49,32,49,48,58,48,48,58,48,48,46,53,48,48,32,124,32,73,78,70,79,32,124,32,85,110,105,80,108,97,121,83,111,110,103,32,124,32,95,102,105,114,115,116,83,101,108,101,99,116,58,32,102,97,108,115,101>> (* 2024-01-01 10:00:00.500 | INFO | UniPlaySong | _firstSelect: false *),
      <<50,48,50,52,45,48,49,45,48,49,32,49,48,58,48,48,58,48,48,46,48,50,48,32,124,32,73,78,70,79,32,124,32,80,108,97,121,110,105,116,101,83,111,117,110,100,32,124,32,95,102,105,114,115,116,83,101,108,101,99,116,58,32,102,97,108,115,101>> (* 2024-01-01 10:00:00.020 | INFO | PlayniteSound | _firstSelect: false *) }

\* events of both extensions 0, 200, 900, 1000, 1100 and 2000 ms after the
\* earliest of them
TimelineCorpus ==
    { <<50,48,50,52,45,48,49,45,48,49,32,49,48,58,48,48,58,48,48,46,48,48,48,32,124,32,73,78,70,79,32,124,32,85,110,105,80,108,97,121,83,111,110,103,32,124,32,79,110,71,97,109,101,83,101,108,101,99,116,101,100,32,71,97,109,101,58,32,70,111,111>> (* 2024-01-01 10:00:00.000 | INFO | UniPlaySong | OnGameSelected Game: Foo *),
      <<50,48,50,52,45,48,49,45,48,49,32,49,48,58,48,48,58,48,48,46,50,48,48,32,124,32,73,78,70,79,32,124,32,80,108,97,121,110,105,116,101,83,111,117,110,100,32,124,32,79,110,71,97,109,101,83,101,108,101,99,116,101,100,32,71,97,109,101,58,32,70,111,111>> (* 2024-01-01 10:00:00.200 | INFO | PlayniteSound | OnGameSelected Game: Foo *),
      <<50,48,50,52,45,48,49,45,48,49,32,49,48,58,48,48,58,48,48,46,57,48,48,32,124,32,73,78,70,79,32,124,32,85,110,105,80,108,97,121,83,111,110,103,32,124,32,86,105,100,101,111,73,115,80,108,97,121,105,110,103,58,32,116,114,117,101>> (* 2024-01-01 10:00:00.900 | INFO | UniPlaySong | VideoIsPlaying: true *),
      <<50,48,50,52,45,48,49,45,48,49,32,49,48,58,48,48,58,48,49,46,48,48,48,32,124,32,73,78,70,79,32,124,32,80,108,97,121,110,105,116,101,83,111,117,110,100,32,124,32,77,101,100,105,97,69,108,101,109,101,110,116,115,77,111,110,105,116,111,114,32,116,105,99,107>> (* 2024-01-01 10:00:01.000 | INFO | PlayniteSound | MediaElementsMonitor tick *),
      <<50,48,50,52,45,48,49,45,48,49,32,49,48,58,48,48,58,48,49,46,49,48,48,32,124,32,73,78,70,79,32,124,32,85,110,105,80,108,97,121,83,111,110,103,32,124,32,80,97,117,115,101,77,117,115,105,99>> (* 2024-01-01 10:00:01.100 | INFO | UniPlaySong | PauseMusic *),
      <<50,48,50,52,45,48,49,45,48,49,32,49,48,58,48,48,58,48,50,46,48,48,48,32,124,32,73,78,70,79,32,124,32,80,108,97,121,110,105,116,101,83,111,117,110,100,32,124,32,82,101,115,117,109,101,77,117,115,105,99>> (* 2024-01-01 10:00:02.000 | INFO | PlayniteSound | ResumeMusic *) }

\* an event of every category, of UniPlaySong at 300 ms and of
\* PlayniteSound at 100 ms
CriticalCorpus ==
    { prefix \o m :
          prefix \in { <<50,48,50,52,45,48,49,45,48,49,32,49,48,58,48,48,58,48,48,46,51,48,48,32,124,32,73,78,70,79,32,124,32,85,110,105,80,108,97,121,83,111,110,103,32,124,32>> (* 2024-01-01 10:00:00.300 | INFO | UniPlaySong |  *),
                       <<50,48,50,52,45,48,49,45,48,49,32,49,48,58,48,48,58,48,48,46,49,48,48,32,124,32,73,78,70,79,32,124,32,80,108,97,121,110,105,116,101,83,111,117,110,100,32,124,32>> (* 2024-01-01 10:00:00.100 | INFO | PlayniteSound |  *) },
          m \in CompactSpellings \cup { <<77,117,115,105,99,32,118,111,108,117,109,101,32,115,101,116>> (* Music volume set *) } }

\* every line the model reads
AllLines ==
    Corpus \cup SourceCorpus \cup ClassifyCorpus \cup CompareCorpus \cup SummaryCorpus
        \cup TimelineCorpus \cup CriticalCorpus

\* what the body of the loop makes of each line the model reads
ParsedLines == [raw \in AllLines |-> ParseLine(raw)]

\* ParseLine(raw), taken from ParsedLines where raw is one of its lines
ParseLineOf(raw) == IF raw \in AllLines THEN ParsedLines[raw] ELSE ParseLine(raw)

(***************************************************************************)
(* The analyzer                                                            *)
(***************************************************************************)
VARIABLES
    log_file_paths,         \* per path, what the file system holds for it, at every call
    file_lines,             \* per path, the lines the loop has taken from the file in this call
    events,                 \* self.events
    uniplaysong_events,     \* self.uniplaysong_events
    playnitesound_events,   \* self.playnitesound_events
    pc,                     \* where the analyzer is
    path_idx,               \* the position of the loop of parse_log_files
    events_before,          \* local of _parse_single_log_file
    total_events,           \* local of parse_log_files
    result,                 \* what parse_log_files returned
    report,                 \* what the create_*_report called last returned
    reports,                \* what generate_all_reports returned
    events_at_call,         \* len(self.events) when parse_log_files was called
    report_at,              \* len(self.events) when that create_*_report was called
    reports_at              \* len(self.events) when generate_all_reports was called

store == <<events, uniplaysong_events, playnitesound_events>>

vars == <<log_file_paths, file_lines, events, uniplaysong_events,
          playnitesound_events, pc, path_idx, events_before, total_events,
          result, report, reports, events_at_call, report_at, reports_at>>

\* a path names no file, names something open() or readlines() fails on,
\* or names a file that can be read
PathKind == { "missing", "unreadable", "readable" }

MaxFiles == 2

MaxLines == 2

NoResult == "none"

NoReport == [ name |-> "none" ]

NoReports == <<>>

RECURSIVE SumLen(_)
SumLen(ss) == IF ss = <<>> THEN 0 ELSE Len(Head(ss)) + SumLen(Tail(ss))

\* the number of lines this call of parse_log_files has read so far, over
\* all files
LinesRead == SumLen(file_lines)

\* LogAnalyzer(log_file_paths)
Init ==
    /\ log_file_paths \in UNION { [1..n -> PathKind] : n \in 0..MaxFiles }
    /\ file_lines = [ i \in DOMAIN log_file_paths |-> <<>> ]
    /\ events = <<>>
    /\ uniplaysong_events = <<>>
    /\ playnitesound_events = <<>>
    /\ pc = "init"
    /\ path_idx = 0
    /\ events_before = 0
    /\ total_events = 0
    /\ result = NoResult
    /\ report = NoReport
    /\ reports = NoReports
    /\ events_at_call = 0
    /\ report_at = 0
    /\ reports_at = 0

\* parse_log_files is called, for the first time or again: lines 72-76.  The
\* three lists are kept as they are and total_events starts at 0; the files
\* are read anew, with what they hold by then
ParseLogFiles ==
    /\ pc \in { "init", "done" }
    /\ events_at_call' = Len(events)
    /\ file_lines' = [ i \in DOMAIN log_file_paths |-> <<>> ]
    /\ IF Len(log_file_paths) = 0
       THEN /\ result' = FALSE
            /\ pc' = "done"
            /\ UNCHANGED <<path_idx, total_events>>
       ELSE /\ total_events' = 0
            /\ path_idx' = 1
            /\ pc' = "paths"
            /\ UNCHANGED result
    /\ UNCHANGED <<log_file_paths, store, events_before, report, reports,
                   report_at, reports_at>>

\* SkipMissingFile ending the run at the missing file
SkipMissingFile_Abort ==
    /\ pc = "paths"
    /\ path_idx <= Len(log_file_paths)
    /\ log_file_paths[path_idx] = "missing"
    /\ result' = (total_events > 0)
    /\ pc' = "done"
    /\ UNCHANGED <<log_file_paths, file_lines, store, path_idx, events_before,
                   total_events, report,
                   reports, events_at_call, report_at, reports_at>>

\* the path does not exist: line 84
SkipMissingFile ==
    /\ pc = "paths"
    /\ path_idx <= Len(log_file_paths)
    /\ log_file_paths[path_idx] = "missing"
    /\ path_idx' = path_idx + 1
    /\ UNCHANGED <<log_file_paths, file_lines, store, pc, events_before,
                   total_events, result, report,
                   reports, events_at_call, report_at, reports_at>>

\* the path exists but reading it raises: lines 94, 113-114 and 203-207,
\* _parse_single_log_file returns 0
FailToReadFile ==
    /\ pc = "paths"
    /\ path_idx <= Len(log_file_paths)
    /\ log_file_paths[path_idx] = "unreadable"
    /\ events_before' = Len(events)
    /\ total_events' = total_events + 0
    /\ path_idx' = path_idx + 1
    /\ UNCHANGED <<log_file_paths, file_lines, store, pc, result, report,
                   reports, events_at_call, report_at, reports_at>>

\* the path exists and its lines are read: lines 94 and 113-114
OpenFile ==
    /\ pc = "paths"
    /\ path_idx <= Len(log_file_paths)
    /\ log_file_paths[path_idx] = "readable"
    /\ events_before' = Len(events)
    /\ pc' = "lines"
    /\ UNCHANGED <<log_file_paths, file_lines, store, path_idx, total_events,
                   result, report,
                   reports, events_at_call, report_at, reports_at>>

\* StoreEvent putting the new event at the head of the full list
StoreEvent_Prepend(p) ==
    IF ~p.created
    THEN UNCHANGED store
    ELSE /\ events' = <<p.event>> \o events
         /\ IF p.event.extension = UNIPLAYSONG
            THEN /\ uniplaysong_events' = Append(uniplaysong_events, p.event)
                 /\ UNCHANGED playnitesound_events
            ELSE /\ playnitesound_events' = Append(playnitesound_events, p.event)
                 /\ UNCHANGED uniplaysong_events

\* lines 193-198: the event the line created, if any, joins the lists
StoreEvent(p) ==
    IF ~p.created
    THEN UNCHANGED store
    ELSE /\ events' = Append(events, p.event)
         /\ IF p.event.extension = UNIPLAYSONG
            THEN /\ uniplaysong_events' = Append(uniplaysong_events, p.event)
                 /\ UNCHANGED playnitesound_events
            ELSE IF p.event.extension = PLAYNITESOUND
            THEN /\ playnitesound_events' = Append(playnitesound_events, p.event)
                 /\ UNCHANGED uniplaysong_events
            ELSE UNCHANGED <<uniplaysong_events, playnitesound_events>>

\* StoreEvent leaving the loop when the line created no event
StoreEvent_BreakOnSkip(p) ==
    IF ~p.created
    THEN /\ pc' = "paths"
         /\ path_idx' = path_idx + 1
         /\ UNCHANGED store
    ELSE /\ StoreEvent(p)
         /\ UNCHANGED <<pc, path_idx>>

\* ProcessLine leaving the loop at a line that creates no event
ProcessLine_BreakOnSkip(raw) ==
    /\ pc = "lines"
    /\ file_lines' = [file_lines EXCEPT ![path_idx] = Append(@, raw)]
    /\ StoreEvent_BreakOnSkip(ParseLineOf(raw))
    /\ UNCHANGED <<log_file_paths, events_before, total_events, result,
                   report, reports, events_at_call, report_at, reports_at>>

\* one turn of the loop over the lines, on the line raw: lines 116-198
ProcessLine(raw) ==
    /\ pc = "lines"
    /\ file_lines' = [file_lines EXCEPT ![path_idx] = Append(@, raw)]
    /\ StoreEvent(ParseLineOf(raw))
    /\ UNCHANGED <<log_file_paths, pc, path_idx, events_before, total_events,
                   result, report, reports, events_at_call, report_at,
                   reports_at>>

\* EndOfFile with  total_events = events_found  for  total_events += events_found
EndOfFile_NoSum ==
    /\ pc = "lines"
    /\ total_events' = Len(events) - events_before
    /\ path_idx' = path_idx + 1
    /\ pc' = "paths"
    /\ UNCHANGED <<log_file_paths, file_lines, store, events_before, result, report,
                   reports, events_at_call, report_at, reports_at>>

\* the lines are exhausted: lines 200-201 and 81
EndOfFile ==
    /\ pc = "lines"
    /\ total_events' = total_events + (Len(events) - events_before)
    /\ path_idx' = path_idx + 1
    /\ pc' = "paths"
    /\ UNCHANGED <<log_file_paths, file_lines, store, events_before, result, report,
                   reports, events_at_call, report_at, reports_at>>

\* the paths are exhausted: lines 86-90
ReturnFromParse ==
    /\ pc = "paths"
    /\ path_idx > Len(log_file_paths)
    /\ result' = (total_events > 0)
    /\ pc' = "done"
    /\ UNCHANGED <<log_file_paths, file_lines, store, path_idx, events_before,
                   total_events, report,
                   reports, events_at_call, report_at, reports_at>>

(***************************************************************************)
(* The reports.  A report is modelled by the values its lines print: the   *)
(* optional lines of a report are sequences that are empty when the line   *)
(* is not printed, and a time is the integer number of milliseconds that   *)
(* the report prints with one decimal.                                     *)
(***************************************************************************)
\* [e for e in evs if e.event_type == t]
OfType(evs, t) == SelectSeq(evs, LAMBDA e : e.event_type = t)

Abs(x) == IF x < 0 THEN 0 - x ELSE x

\* s[:n]
Take(s, n) == SubSeq(s, 1, IF Len(s) < n THEN Len(s) ELSE n)

\* the threshold of line 419, in milliseconds
SignificantMs == 100

\* the [:5] of lines 445 and 451
ListedChanges == 5

\* the 0.1 seconds of line 519, in milliseconds
ClearedWithinMs == 100

\* line 417: the difference of the first selections, in milliseconds
TimeDifference(ups_first, ps_first) == Elapsed(ups_first.timestamp, ps_first.timestamp)

\* IsSignificant without the abs()
IsSignificant_Signed(time_diff) == time_diff > SignificantMs

\* line 419
IsSignificant(time_diff) == Abs(time_diff) > SignificantMs

\* ClearedImmediately with <= for <
ClearedImmediately_Inclusive(first_clear, first_selection) ==
    Abs(Elapsed(first_clear.timestamp, first_selection.timestamp)) <= ClearedWithinMs

\* line 519
ClearedImmediately(first_clear, first_selection) ==
    Abs(Elapsed(first_clear.timestamp, first_selection.timestamp)) < ClearedWithinMs

\* lines 512-513: the _firstSelect events of evs whose message has "false" in it
FirstSelectCleared(evs) ==
    SelectSeq(evs, LAMBDA e : /\ e.event_type = FIRST_SELECT_STATE
                              /\ Contains(<<102,97,108,115,101>> (* false *), Lower(e.message)))

\* the lines of lines 445-447 and 451-453 for the events evs
ChangeList(evs) ==
    [ i \in DOMAIN Take(evs, ListedChanges) |->
        [ delta   |-> Elapsed(evs[i].timestamp, events[1].timestamp),
          message |-> evs[i].message ] ]

create_comparison_report ==
    LET ups_selections == OfType(uniplaysong_events, ON_GAME_SELECTED)
        ps_selections  == OfType(playnitesound_events, ON_GAME_SELECTED)
        ups_video      == OfType(uniplaysong_events, VIDEO_IS_PLAYING_CHANGED)
        ps_video       == OfType(playnitesound_events, VIDEO_IS_PLAYING_CHANGED)
        ups_first      == OfType(uniplaysong_events, FIRST_SELECT_STATE)
        ps_first       == OfType(playnitesound_events, FIRST_SELECT_STATE)
        both           == ups_selections # <<>> /\ ps_selections # <<>>
        time_diff      == TimeDifference(ups_selections[1], ps_selections[1])
    IN  [ name             |-> "comparison",
          selections       |-> <<Len(ups_selections), Len(ps_selections)>>,
          first_selections |-> IF both
                               THEN <<ups_selections[1], ps_selections[1]>>
                               ELSE <<>>,
          time_diff        |-> IF both THEN <<time_diff>> ELSE <<>>,
          significant      |-> both /\ IsSignificant(time_diff),
          video            |-> <<Len(ups_video), Len(ps_video)>>,
          first_video      |-> IF ups_video # <<>> /\ ps_video # <<>>
                               THEN <<ups_video[1].message, ps_video[1].message>>
                               ELSE <<>>,
          first_select     |-> <<Len(ups_first), Len(ps_first)>>,
          ups_changes      |-> ChangeList(ups_first),
          ps_changes       |-> ChangeList(ps_first) ]

\* min(e.timestamp for e in self.events)
MinTimestamp(evs) ==
    CHOOSE t \in { evs[i].timestamp : i \in DOMAIN evs } :
        \A i \in DOMAIN evs : ~Earlier(evs[i].timestamp, t)

\* the number of events of evs that have the type t
CountOf(evs, t) == Len(OfType(evs, t))

create_summary_report ==
    IF events = <<>> THEN [ name |-> "summary", empty |-> TRUE ]
    ELSE
    LET baseline       == MinTimestamp(events)
        all_types      == { t \in EventType :
                              CountOf(uniplaysong_events, t) > 0
                                \/ CountOf(playnitesound_events, t) > 0 }
        ups_selections == OfType(uniplaysong_events, ON_GAME_SELECTED)
        ups_video      == OfType(uniplaysong_events, VIDEO_IS_PLAYING_CHANGED)
        ups_first_changes == FirstSelectCleared(uniplaysong_events)
    IN  [ name   |-> "summary",
          empty  |-> FALSE,
          counts |-> [ t \in all_types |->
                         [ ups  |-> CountOf(uniplaysong_events, t),
                           ps   |-> CountOf(playnitesound_events, t),
                           diff |-> CountOf(uniplaysong_events, t)
                                      - CountOf(playnitesound_events, t) ] ],
          video_finding |->
              IF ups_selections # <<>> /\ ups_video # <<>>
              THEN IF Earlier(ups_selections[1].timestamp, ups_video[1].timestamp)
                   THEN << "selected before video",
                           Elapsed(ups_video[1].timestamp, ups_selections[1].timestamp) >>
                   ELSE << "video before selected" >>
              ELSE <<>>,
          first_select_finding |->
              IF ups_selections # <<>> /\ ups_first_changes # <<>>
              THEN IF ClearedImmediately(ups_first_changes[1], ups_selections[1])
                   THEN << "cleared immediately" >>
                   ELSE << "timing differs" >>
              ELSE <<>> ]

\* the events sorted, with e put after those that are not later than it
InsertByTimestamp(sorted, e) ==
    SelectSeq(sorted, LAMBDA x : ~Earlier(e.timestamp, x.timestamp))
        \o << e >>
        \o SelectSeq(sorted, LAMBDA x : Earlier(e.timestamp, x.timestamp))

\* sorted(evs, key=lambda e: e.timestamp): the sort is stable
RECURSIVE SortedByTimestamp(_)
SortedByTimestamp(evs) ==
    IF evs = <<>> THEN <<>>
    ELSE InsertByTimestamp(SortedByTimestamp(SubSeq(evs, 1, Len(evs) - 1)),
                           evs[Len(evs)])

\* int(x) for x a number of seconds given in milliseconds: towards zero
IntOfSeconds(ms) ==
    IF ms >= 0 THEN ms \div MsPerSecond ELSE 0 - ((0 - ms) \div MsPerSecond)

\* WindowOf with round() for int()
WindowOf_Rounded(timestamp, baseline) ==
    (Elapsed(timestamp, baseline) + MsPerSecond \div 2) \div MsPerSecond

\* lines 314-315: the window of an event
WindowOf(timestamp, baseline) == IntOfSeconds(Elapsed(timestamp, baseline))

\* the [:60] of line 327
ShownMessageLen == 60

\* lines 322-327: the line of an event in the timeline
TimelineEntry(event, baseline) ==
    [ window     |-> WindowOf(event.timestamp, baseline),
      delta_ms   |-> Elapsed(event.timestamp, baseline),
      extension  |-> event.extension,
      event_type |-> event.event_type,
      message    |-> Take(event.message, ShownMessageLen) ]

\* lines 298-327: the windows in rising order, which is the order of
\* sorted_events, each with its events in the order of sorted_events
TimelineOf(sorted_events) ==
    [ name     |-> "timeline",
      empty    |-> FALSE,
      baseline |-> sorted_events[1].timestamp,
      total    |-> Len(sorted_events),
      counts   |-> << Len(uniplaysong_events), Len(playnitesound_events) >>,
      windows  |-> { WindowOf(sorted_events[i].timestamp, sorted_events[1].timestamp) :
                       i \in DOMAIN sorted_events },
      entries  |-> [ i \in DOMAIN sorted_events |->
                       TimelineEntry(sorted_events[i], sorted_events[1].timestamp) ] ]

create_timeline_report ==
    IF events = <<>> THEN [ name |-> "timeline", empty |-> TRUE ]
    ELSE TimelineOf(SortedByTimestamp(events))

\* critical_types with OnSettingsChanged among them
critical_types_WithSettings ==
    { ON_APPLICATION_STARTED, ON_GAME_SELECTED, ON_SETTINGS_CHANGED,
      VIDEO_IS_PLAYING_CHANGED, FIRST_SELECT_STATE, SHOULD_PLAY_MUSIC,
      SHOULD_PLAY_AUDIO, PLAY_MUSIC_BASED_ON_SELECTED, PAUSE_MUSIC, RESUME_MUSIC }

\* lines 339-349
critical_types ==
    { ON_APPLICATION_STARTED, ON_GAME_SELECTED, VIDEO_IS_PLAYING_CHANGED,
      FIRST_SELECT_STATE, SHOULD_PLAY_MUSIC, SHOULD_PLAY_AUDIO,
      PLAY_MUSIC_BASED_ON_SELECTED, PAUSE_MUSIC, RESUME_MUSIC }

\* lines 372-377: what is shown of a critical event
CriticalEntry(event, baseline) ==
    [ delta      |-> Elapsed(event.timestamp, baseline),
      event_type |-> event.event_type,
      message    |-> event.message,
      metadata   |-> event.metadata ]

\* lines 365-377: the section of an extension
CriticalSection(ext_events, baseline) ==
    [ i \in DOMAIN ext_events |-> CriticalEntry(ext_events[i], baseline) ]

\* [e for e in critical_events if e.extension == ext_type]
OfExtension(evs, ext_type) == SelectSeq(evs, LAMBDA e : e.extension = ext_type)

\* lines 355-377: the report of the sorted critical events
CriticalOf(critical_events) ==
    IF critical_events = <<>> THEN [ name |-> "critical", empty |-> TRUE ]
    ELSE [ name     |-> "critical",
           empty    |-> FALSE,
           found    |-> Len(critical_events),
           sections |->
               [ ext_type \in { x \in { UNIPLAYSONG, PLAYNITESOUND } :
                                  OfExtension(critical_events, x) # <<>> } |->
                   CriticalSection(OfExtension(critical_events, ext_type),
                                   critical_events[1].timestamp) ] ]

create_critical_events_report ==
    CriticalOf(SortedByTimestamp(
        SelectSeq(events, LAMBDA e : e.event_type \in critical_types)))

\* the reports are methods of the analyzer that take the store as it is:
\* they can be called before parse_log_files, after it whatever it returned,
\* and, the analyzer being single-threaded, not while it runs
CanReport == pc \in { "init", "done" }

\* lines 528-533 and 543: the four reports, in a dict.  Given a directory,
\* lines 535-541 write the same four texts to four files
GenerateAllReports ==
    /\ CanReport
    /\ reports' = [ timeline   |-> create_timeline_report,
                    critical   |-> create_critical_events_report,
                    comparison |-> create_comparison_report,
                    summary    |-> create_summary_report ]
    /\ reports_at' = Len(events)
    /\ UNCHANGED <<log_file_paths, file_lines, store, pc, path_idx,
                   events_before, total_events, result, report, events_at_call,
                   report_at>>

CreateTimelineReport ==
    /\ CanReport
    /\ report' = create_timeline_report
    /\ report_at' = Len(events)
    /\ UNCHANGED <<log_file_paths, file_lines, store, pc, path_idx,
                   events_before, total_events, result, reports,
                   events_at_call, reports_at>>

\* CreateCriticalEventsReport sorting self.events itself
CreateCriticalEventsReport_SortInPlace ==
    /\ CanReport
    /\ report' = create_critical_events_report
    /\ report_at' = Len(events)
    /\ events' = SortedByTimestamp(events)
    /\ UNCHANGED <<log_file_paths, file_lines, uniplaysong_events,
                   playnitesound_events, pc, path_idx, events_before,
                   total_events, result, reports, events_at_call, reports_at>>

CreateCriticalEventsReport ==
    /\ CanReport
    /\ report' = create_critical_events_report
    /\ report_at' = Len(events)
    /\ UNCHANGED <<log_file_paths, file_lines, store, pc, path_idx,
                   events_before, total_events, result, reports,
                   events_at_call, reports_at>>

CreateComparisonReport ==
    /\ CanReport
    /\ report' = create_comparison_report
    /\ report_at' = Len(events)
    /\ UNCHANGED <<log_file_paths, file_lines, store, pc, path_idx,
                   events_before, total_events, result, reports,
                   events_at_call, reports_at>>

CreateSummaryReport ==
    /\ CanReport
    /\ report' = create_summary_report
    /\ report_at' = Len(events)
    /\ UNCHANGED <<log_file_paths, file_lines, store, pc, path_idx,
                   events_before, total_events, result, reports,
                   events_at_call, reports_at>>

(***************************************************************************)
(* Specifications                                                          *)
(***************************************************************************)
\* the steps of a call of parse_log_files over files whose lines are drawn
\* from lines: the events of the calls before and the lines of this one are
\* at most max together
ReadFiles(lines, max) ==
    \/ SkipMissingFile
    \/ FailToReadFile
    \/ OpenFile
    \/ (events_at_call + LinesRead < max /\ \E raw \in lines : ProcessLine(raw))
    \/ EndOfFile
    \/ ReturnFromParse

\* parse_log_files called any number of times
Ingest(lines, max) == ParseLogFiles \/ ReadFiles(lines, max)

\* parse_log_files called once
IngestOnce(lines, max) == (pc = "init" /\ ParseLogFiles) \/ ReadFiles(lines, max)

Next ==
    \/ Ingest(Corpus, MaxLines)
    \/ CreateTimelineReport
    \/ CreateCriticalEventsReport
    \/ CreateComparisonReport
    \/ CreateSummaryReport
    \/ GenerateAllReports

Spec == Init /\ [][Next]_vars

\* one analyzer parsing files any number of times, no report being called
SpecParse == Init /\ [][Ingest(Corpus, MaxLines)]_vars

\* lines of both extensions, out of their order in time, and one of neither
StoreCorpus == {LineTabularA, LineTabularB, LineBracketedA, LineUnknown}

MaxStoreLines == 3

SpecStore == Init /\ [][Ingest(StoreCorpus, MaxStoreLines)]_vars

\* an analyzer of at most one path
InitSingle == Init /\ Len(log_file_paths) <= 1

\* one analyzer of at most one path, parsing it any number of times and
\* reporting at any time between the calls
SpecReports == InitSingle /\ [][Next]_vars

MaxSourceLines == 1

\* one analyzer parsing once lines that name the extensions in every way
SpecSource == InitSingle /\ [][IngestOnce(SourceCorpus, MaxSourceLines)]_vars

MaxClassifyLines == 1

NextClassify == IngestOnce(ClassifyCorpus, MaxClassifyLines)

\* one analyzer parsing once lines of one and of two keywords
SpecClassify == InitSingle /\ [][NextClassify]_vars

MaxCompareLines == 3

NextCompare == IngestOnce(CompareCorpus, MaxCompareLines) \/ CreateComparisonReport

\* one analyzer parsing game selections once and reporting the comparison
SpecCompare == InitSingle /\ [][NextCompare]_vars

MaxSummaryLines == 3

NextSummary == IngestOnce(SummaryCorpus, MaxSummaryLines) \/ CreateSummaryReport

\* one analyzer parsing changes of _firstSelect once and reporting the
\* summary
SpecSummary == InitSingle /\ [][NextSummary]_vars

MaxTimelineLines == 5

NextTimeline == IngestOnce(TimelineCorpus, MaxTimelineLines) \/ CreateTimelineReport

\* one analyzer parsing events up to two seconds apart once and reporting
\* the timeline
SpecTimeline == InitSingle /\ [][NextTimeline]_vars

MaxCriticalLines == 2

NextCritical == IngestOnce(CriticalCorpus, MaxCriticalLines) \/ CreateCriticalEventsReport

\* one analyzer parsing events of every category once and reporting the
\* critical events
SpecCritical == InitSingle /\ [][NextCritical]_vars

(***************************************************************************)
(* Properties                                                              *)
(***************************************************************************)
\* the text the create_*_report called last returned, where the store is still
\* the one it was made of: no list loses or moves an event, so that the store
\* is the same when it has as many
ReportOfStore == IF report_at = Len(events) THEN report ELSE NoReport

\* the dict that generate_all_reports returned, where the store is still the
\* one it was made of
ReportsOfStore == IF reports_at = Len(events) THEN reports ELSE NoReports

RECURSIVE Flatten(_)
Flatten(ss) == IF ss = <<>> THEN <<>> ELSE Head(ss) \o Flatten(Tail(ss))

\* the lines this call of parse_log_files has read so far, in the order
\* they were read
AllLinesRead == Flatten(file_lines)

\* the events stored since parse_log_files was called
EventsSinceCall == SubSeq(events, events_at_call + 1, Len(events))

\* the step reads a line of a file
LineStep == pc = "lines" /\ file_lines' # file_lines

\* the line a LineStep reads
LineJustRead == file_lines'[path_idx][Len(file_lines'[path_idx])]

\* the events evs and after them the event p, where one was created
WithEvent(evs, p) == IF p.created THEN Append(evs, p.event) ELSE evs

\* the events a sequence of lines leaves, line by line
RECURSIVE EventsOfLines(_)
EventsOfLines(lines) ==
    IF lines = <<>> THEN <<>>
    ELSE WithEvent(EventsOfLines(SubSeq(lines, 1, Len(lines) - 1)),
                   ParseLineOf(lines[Len(lines)]))

KnownSources == { UNIPLAYSONG, PLAYNITESOUND }

WellFormedEvent(e) ==
    /\ e.extension \in KnownSources
    /\ e.timestamp.day \in Nat \ {0}
    /\ e.timestamp.ms \in 0..(MsPerDay - 1)
    /\ e.event_type \in EventType

\* C1: every event of the full collection and of the two per-source
\* collections has one of the two known sources (never Unknown), a timestamp
\* and a category of the taxonomy
StoredEventsWellFormed ==
    \A evs \in { events, uniplaysong_events, playnitesound_events } :
        \A i \in DOMAIN evs : WellFormedEvent(evs[i])

\* C1 witness: two files were read and left an event of each source
StoredEventsWitness ==
    /\ pc = "done"
    /\ Len(file_lines) = 2
    /\ file_lines[1] # <<>> /\ file_lines[2] # <<>>
    /\ uniplaysong_events # <<>>
    /\ playnitesound_events # <<>>
    /\ Len(events) = 2

\* the source a LineStep resolves its line to
ResolvedSource ==
    IF events' = events THEN UNKNOWN ELSE events'[Len(events')].extension

\* a line of the fields f and a timestamp that parses has the source
\* resolved as its field says, and Unknown only if nothing names a source
FieldDecides(f, resolved) ==
    (f.matched /\ ParseTimestamp(f.timestamp_str).ok) =>
        LET fieldA == Contains(ExtensionName(UNIPLAYSONG), f.extension_name)
            fieldB == Contains(ExtensionName(PLAYNITESOUND), f.extension_name)
            textA  == Contains(ExtensionName(UNIPLAYSONG), f.message)
            textB  == Contains(ExtensionName(PLAYNITESOUND), f.message)
        IN  /\ (fieldA /\ ~fieldB) => resolved = UNIPLAYSONG
            /\ (fieldB /\ ~fieldA) => resolved = PLAYNITESOUND
            /\ resolved = UNKNOWN => ~(fieldA \/ fieldB \/ textA \/ textB)

\* C2: the source field of a parsed line is checked first: a line whose field
\* names one known source resolves to that source whatever its message holds,
\* and a line resolves to Unknown only if neither its field nor its message
\* names a known source
SourceFieldDecides ==
    [][ LineStep => FieldDecides(MatchLine(Strip(LineJustRead)), ResolvedSource) ]_vars

\* the categories in the order their rules are tested
RuleOrder ==
    << ON_GAME_SELECTED, ON_APPLICATION_STARTED, ON_SETTINGS_CHANGED,
       VIDEO_IS_PLAYING_CHANGED, SHOULD_PLAY_MUSIC, SHOULD_PLAY_AUDIO,
       PLAY_MUSIC_BASED_ON_SELECTED, PAUSE_MUSIC, RESUME_MUSIC,
       FIRST_SELECT_STATE, MEDIA_ELEMENTS_MONITOR, ON_MAIN_MODEL_CHANGED >>

\* the keywords of the i-th category
Keywords(i) ==
    << { <<111,110,103,97,109,101,115,101,108,101,99,116,101,100>> (* ongameselected *), <<111,110,32,103,97,109,101,32,115,101,108,101,99,116,101,100>> (* on game selected *) },
       { <<111,110,97,112,112,108,105,99,97,116,105,111,110,115,116,97,114,116,101,100>> (* onapplicationstarted *), <<97,112,112,108,105,99,97,116,105,111,110,32,115,116,97,114,116,101,100>> (* application started *) },
       { <<111,110,115,101,116,116,105,110,103,115,99,104,97,110,103,101,100>> (* onsettingschanged *), <<111,110,32,115,101,116,116,105,110,103,115,32,99,104,97,110,103,101,100>> (* on settings changed *) },
       { <<118,105,100,101,111,105,115,112,108,97,121,105,110,103>> (* videoisplaying *), <<118,105,100,101,111,32,105,115,32,112,108,97,121,105,110,103>> (* video is playing *) },
       { <<115,104,111,117,108,100,112,108,97,121,109,117,115,105,99>> (* shouldplaymusic *), <<115,104,111,117,108,100,32,112,108,97,121,32,109,117,115,105,99>> (* should play music *) },
       { <<115,104,111,117,108,100,112,108,97,121,97,117,100,105,111>> (* shouldplayaudio *), <<115,104,111,117,108,100,32,112,108,97,121,32,97,117,100,105,111>> (* should play audio *) },
       { <<112,108,97,121,109,117,115,105,99,98,97,115,101,100,111,110,115,101,108,101,99,116,101,100>> (* playmusicbasedonselected *) },
       { <<112,97,117,115,101,109,117,115,105,99>> (* pausemusic *), <<112,97,117,115,101,32,109,117,115,105,99>> (* pause music *) },
       { <<114,101,115,117,109,101,109,117,115,105,99>> (* resumemusic *), <<114,101,115,117,109,101,32,109,117,115,105,99>> (* resume music *) },
       { <<102,105,114,115,116,115,101,108,101,99,116>> (* firstselect *), <<95,102,105,114,115,116,115,101,108,101,99,116>> (* _firstselect *), <<102,105,114,115,116,32,115,101,108,101,99,116>> (* first select *) },
       { <<109,101,100,105,97,101,108,101,109,101,110,116,115,109,111,110,105,116,111,114>> (* mediaelementsmonitor *), <<109,101,100,105,97,32,101,108,101,109,101,110,116,115,32,109,111,110,105,116,111,114>> (* media elements monitor *) },
       { <<111,110,109,97,105,110,109,111,100,101,108,99,104,97,110,103,101,100>> (* onmainmodelchanged *), <<111,110,32,109,97,105,110,32,109,111,100,101,108,32,99,104,97,110,103,101,100>> (* on main model changed *) } >>[i]

\* the positions in RuleOrder of the categories a message has a keyword of,
\* whatever the case of its letters
CategoriesIn(message) ==
    LET lowered == Lower(message)
    IN  { i \in DOMAIN RuleOrder : \E k \in Keywords(i) : Contains(k, lowered) }

\* C3: the category of a stored event is the earliest, in the order of the
\* rules, of the categories its message has a keyword of, and Other when
\* the message has no keyword
FirstRuleWins ==
    \A n \in DOMAIN events :
        LET found == CategoriesIn(events[n].message)
        IN  IF found = {}
            THEN events[n].event_type = OTHER_EVENT
            ELSE \E i \in found :
                     /\ \A j \in found : i <= j
                     /\ events[n].event_type = RuleOrder[i]

\* C3 witness: a stored event whose message has the keywords of two
\* categories, the later category written first, and has the earlier category
FirstRuleWinsWitness ==
    \E n \in DOMAIN events :
        /\ events[n].message = <<82,101,115,117,109,101,77,117,115,105,99,32,97,102,116,101,114,32,83,104,111,117,108,100,80,108,97,121,77,117,115,105,99>> (* ResumeMusic after ShouldPlayMusic *)
        /\ CategoriesIn(events[n].message) = {5, 9}
        /\ events[n].event_type = SHOULD_PLAY_MUSIC

\* C4: a line that creates no event leaves the three collections as they
\* were and the loop over the lines goes on, so that at every moment of
\* every call of parse_log_files, the first and the later ones, the events
\* stored since the call are those of all the lines read since, those after
\* a skipped line included, and the events stored before the call are kept
SkippedLineChangesNothing ==
    /\ [][ (LineStep /\ ~ParseLineOf(LineJustRead).created) =>
             (store' = store /\ pc' = "lines" /\ path_idx' = path_idx) ]_vars
    /\ [](events_at_call <= Len(events) /\ EventsSinceCall = EventsOfLines(AllLinesRead))
    /\ [][ events_at_call' = events_at_call =>
             SubSeq(events', 1, events_at_call) = SubSeq(events, 1, events_at_call) ]_vars

\* C4 witness: a file whose first line creates no event and whose second
\* line left an event
SkippedLineWitness ==
    \E i \in DOMAIN file_lines :
        /\ Len(file_lines[i]) = 2
        /\ file_lines[i][1] \in { LineGarbage, LineBadTimestamp, LineUnknown }
        /\ ParseLineOf(file_lines[i][2]).created
        /\ events = << ParseLineOf(file_lines[i][2]).event >>

\* C5: when parse_log_files, called on a store that held no event, has
\* returned, it returned False if and only if the store holds no event; and
\* called on any store, it returned False if and only if it stored no event
EmptyResultIffNoEvents ==
    /\ (pc = "done" /\ events_at_call = 0) => (result = FALSE <=> events = <<>>)
    /\ pc = "done" => (result = FALSE <=> Len(events) = events_at_call)

\* C5 witness: parse_log_files returned False after reading lines that all
\* resolve to an unknown source
EmptyResultWitness ==
    /\ pc = "done"
    /\ events_at_call = 0
    /\ result = FALSE
    /\ AllLinesRead # <<>>
    /\ \A i \in DOMAIN AllLinesRead : AllLinesRead[i] = LineUnknown

\* the step is the turn of the loop of parse_log_files for a path that
\* cannot be read
UnreadableStep ==
    /\ pc = "paths"
    /\ path_idx <= Len(log_file_paths)
    /\ log_file_paths[path_idx] # "readable"
    /\ path_idx' # path_idx

\* C6: a path that cannot be read leaves the store as it was and the loop
\* goes on to the next path; no step takes an event out of the store; and
\* when parse_log_files has returned, from its first call or a later one,
\* every path had its turn and the store holds, after the events it held at
\* the call, the events of the lines of all files, in the order of the paths
UnreadableInputDoesNotAbort ==
    /\ [][ UnreadableStep =>
             (store' = store /\ pc' = "paths" /\ path_idx' = path_idx + 1) ]_vars
    /\ [][ Len(events) <= Len(events')
             /\ SubSeq(events', 1, Len(events)) = events ]_vars
    /\ [](pc = "done" /\ log_file_paths # <<>> =>
             /\ path_idx = Len(log_file_paths) + 1
             /\ events_at_call <= Len(events)
             /\ EventsSinceCall = EventsOfLines(AllLinesRead))

\* C6 witness: the first path could not be read, the second was read
\* and parse_log_files returned with its event in the store
UnreadableInputWitness ==
    /\ pc = "done"
    /\ Len(log_file_paths) = 2
    /\ log_file_paths[1] = "unreadable"
    /\ file_lines[2] # <<>>
    /\ events # <<>>
    /\ result = TRUE

\* the positions in evs of the events of the type t
PositionsOf(evs, t) == { i \in DOMAIN evs : evs[i].event_type = t }

\* the first event of evs, in the order of the store, that has the type t
FirstOf(evs, t) ==
    evs[CHOOSE i \in PositionsOf(evs, t) : \A j \in PositionsOf(evs, t) : i <= j]

\* both sources have an event of the type t
BothHave(t) ==
    PositionsOf(uniplaysong_events, t) # {} /\ PositionsOf(playnitesound_events, t) # {}

\* first occurrence of UniPlaySong minus first occurrence of PlayniteSound
FirstsApart(t) ==
    Elapsed(FirstOf(uniplaysong_events, t).timestamp,
            FirstOf(playnitesound_events, t).timestamp)

ComparedFamilies == { ON_GAME_SELECTED, VIDEO_IS_PLAYING_CHANGED, FIRST_SELECT_STATE }

\* the difference a comparison report prints for a family: the line
\* "Time difference" of the game selections, and no line for the others
ReportedDifference(r, t) == IF t = ON_GAME_SELECTED THEN r.time_diff ELSE <<>>

\* C7: for each of the three families that both sources have an event of,
\* the comparison reports the absolute difference of the first occurrences
AbsoluteDifferenceReported ==
    ReportOfStore.name = "comparison" =>
        \A t \in ComparedFamilies :
            BothHave(t) => ReportedDifference(ReportOfStore, t) = << Abs(FirstsApart(t)) >>

\* C8: the comparison flags a significant difference if and only if both
\* sources have a game selection and the first ones are more than 100 ms
\* apart, whichever came first
SignificantIffOver100 ==
    ReportOfStore.name = "comparison" =>
        (ReportOfStore.significant <=>
            (BothHave(ON_GAME_SELECTED) /\ Abs(FirstsApart(ON_GAME_SELECTED)) > 100))

\* C8 witness: a flagged comparison of a game selection of PlayniteSound
\* 101 ms before that of UniPlaySong
SignificantWitness ==
    /\ ReportOfStore.name = "comparison"
    /\ ReportOfStore.significant
    /\ ReportOfStore.time_diff = << 101 >>
    /\ FirstsApart(ON_GAME_SELECTED) = 101

\* C9: each list of _firstSelect changes has at most five entries, and each
\* entry is the time of its event since the earliest stored event, which is
\* never negative
ListedSinceEarliest ==
    ReportOfStore.name = "comparison" =>
        \A x \in KnownSources :
            LET list == IF x = UNIPLAYSONG THEN ReportOfStore.ups_changes ELSE ReportOfStore.ps_changes
                evs  == OfType(IF x = UNIPLAYSONG THEN uniplaysong_events
                                                  ELSE playnitesound_events,
                               FIRST_SELECT_STATE)
            IN  /\ Len(list) <= 5
                /\ \A i \in DOMAIN list :
                       /\ list[i].delta >= 0
                       /\ list[i].delta = Elapsed(evs[i].timestamp, MinTimestamp(events))

\* the positions in uniplaysong_events of the _firstSelect events whose
\* message holds "false", in any case of the letters
ClearedPositions ==
    { i \in DOMAIN uniplaysong_events :
        /\ uniplaysong_events[i].event_type = FIRST_SELECT_STATE
        /\ Contains(<<102,97,108,115,101>> (* false *), Lower(uniplaysong_events[i].message)) }

\* the distance of the i-th event of UniPlaySong from its first game selection
FromFirstSelection(i) ==
    Abs(Elapsed(uniplaysong_events[i].timestamp,
                FirstOf(uniplaysong_events, ON_GAME_SELECTED).timestamp))

\* the summary has something to say on the clearing of _firstSelect
ClearingJudged ==
    /\ ReportOfStore.name = "summary"
    /\ PositionsOf(uniplaysong_events, ON_GAME_SELECTED) # {}
    /\ ClearedPositions # {}

\* C10 as claimed: "cleared immediately" is reported if and only if some
\* _firstSelect event of UniPlaySong that holds "false" is less than 100 ms
\* from its first game selection, and the mismatch is flagged otherwise
ClearedIffSomeWithin ==
    ClearingJudged =>
        ReportOfStore.first_select_finding =
            IF \E i \in ClearedPositions : FromFirstSelection(i) < 100
            THEN << "cleared immediately" >>
            ELSE << "timing differs" >>

\* the time of the i-th event of UniPlaySong since its first game selection,
\* negative when the event is the earlier
SinceFirstSelection(i) ==
    Elapsed(uniplaysong_events[i].timestamp,
            FirstOf(uniplaysong_events, ON_GAME_SELECTED).timestamp)

\* C10 as amended: it is the first such event, in the order of the store,
\* that decides, be it before the game selection or after it, and a distance
\* of exactly 100 ms is a mismatch
ClearedIffFirstWithin ==
    ClearingJudged =>
        LET first == CHOOSE i \in ClearedPositions : \A j \in ClearedPositions : i <= j
        IN  ReportOfStore.first_select_finding =
                IF FromFirstSelection(first) < 100
                THEN << "cleared immediately" >>
                ELSE << "timing differs" >>

\* C10 witness: the mismatch is flagged for a first clearing 500 ms before
\* the game selection although a later one is 50 ms after it
ClearedIffFirstWitness ==
    /\ ClearingJudged
    /\ ReportOfStore.first_select_finding = << "timing differs" >>
    /\ \E i \in ClearedPositions :
           /\ \A j \in ClearedPositions : i <= j
           /\ SinceFirstSelection(i) = 0 - 500
    /\ \E i \in ClearedPositions : SinceFirstSelection(i) = 50

\* the report is one of the texts returned in place of a report body
NothingToReport(r) == "empty" \in DOMAIN r /\ r.empty

\* C11: a report made of an empty store is a text that says there is
\* nothing to report, whichever of the four reports it is
EmptyStoreReportsNothing ==
    (events = <<>> /\ ReportOfStore # NoReport) => NothingToReport(ReportOfStore)

\* the offsets since the earliest stored event, in the order of the store
OffsetsOfStore ==
    [ j \in DOMAIN events |-> Elapsed(events[j].timestamp, MinTimestamp(events)) ]

\* the entry is of an event d ms after the anchor and has the window of d:
\* the w with  w s <= d < (w + 1) s
EntryInWindowOf(entry, d) ==
    /\ entry.delta_ms = d
    /\ entry.window * MsPerSecond <= d
    /\ d < (entry.window + 1) * MsPerSecond

\* C12: the timeline is anchored at the earliest timestamp of the store,
\* it has one entry per stored event, every window index is at least 0 and
\* an event d ms after the anchor is in the window  d div 1000
WindowIsFloorOfSeconds ==
    (ReportOfStore.name = "timeline" /\ ~ReportOfStore.empty) =>
        /\ ReportOfStore.baseline = MinTimestamp(events)
        /\ Len(ReportOfStore.entries) = Len(events)
        /\ \A i \in DOMAIN ReportOfStore.entries :
               /\ ReportOfStore.entries[i].window >= 0
               /\ ReportOfStore.entries[i].window \in ReportOfStore.windows
               /\ EntryInWindowOf(ReportOfStore.entries[i], ReportOfStore.entries[i].delta_ms)
        /\ \A j \in DOMAIN events :
               \E i \in DOMAIN ReportOfStore.entries :
                   EntryInWindowOf(ReportOfStore.entries[i], OffsetsOfStore[j])

\* C12 witness: a timeline of events read out of their order in time, those
\* 200, 900, 1100 and 2000 ms after the anchor in the windows 0, 0, 1 and 2
WindowIsFloorWitness ==
    /\ ReportOfStore.name = "timeline"
    /\ ~ReportOfStore.empty
    /\ events[1].timestamp # ReportOfStore.baseline
    /\ [ i \in DOMAIN ReportOfStore.entries |->
            << ReportOfStore.entries[i].delta_ms, ReportOfStore.entries[i].window >> ]
         = << <<0, 0>>, <<200, 0>>, <<900, 0>>, <<1100, 1>>, <<2000, 2>> >>

\* the entries the critical report shows for the extension x
ShownFor(x) ==
    IF ReportOfStore.empty \/ x \notin DOMAIN ReportOfStore.sections THEN <<>> ELSE ReportOfStore.sections[x]

\* the critical report shows the event e
ShownAsCritical(e) ==
    \E i \in DOMAIN ShownFor(e.extension) :
        /\ ShownFor(e.extension)[i].event_type = e.event_type
        /\ ShownFor(e.extension)[i].message = e.message

\* the stored events of the categories cs
StoredOf(cs) == SelectSeq(events, LAMBDA e : e.event_type \in cs)

\* every offset shown is since the earliest of the stored events of the
\* categories cs, and there is an entry for each of these events
OffsetsSinceEarliestOf(cs) ==
    /\ \A x \in DOMAIN ReportOfStore.sections :
           \A i \in DOMAIN ReportOfStore.sections[x] : ReportOfStore.sections[x][i].delta >= 0
    /\ \A j \in DOMAIN StoredOf(cs) :
           \E i \in DOMAIN ShownFor(StoredOf(cs)[j].extension) :
               /\ ShownFor(StoredOf(cs)[j].extension)[i].message = StoredOf(cs)[j].message
               /\ ShownFor(StoredOf(cs)[j].extension)[i].delta =
                      Elapsed(StoredOf(cs)[j].timestamp, MinTimestamp(StoredOf(cs)))

\* the categories that are left when three are taken from the taxonomy
AllButThree == EventType \ { MEDIA_ELEMENTS_MONITOR, ON_MAIN_MODEL_CHANGED, OTHER_EVENT }

\* the categories that are left when four are taken from the taxonomy
AllButFour == AllButThree \ { ON_SETTINGS_CHANGED }

\* C13 as claimed: the critical report shows a stored event if and only if
\* its category is none of MediaElementsMonitor, OnMainModelChanged and Other
CriticalExcludesThree ==
    ReportOfStore.name = "critical" =>
        \A j \in DOMAIN events :
            ShownAsCritical(events[j]) <=> events[j].event_type \in AllButThree

\* C13 amended: the critical report shows a stored event if and only if its
\* category is one of the nine that are none of OnSettingsChanged,
\* MediaElementsMonitor, OnMainModelChanged and Other; the offsets shown are
\* since the earliest of these events and none is negative
CriticalExcludesFour ==
    ReportOfStore.name = "critical" =>
        /\ Cardinality(AllButFour) = 9
        /\ \A j \in DOMAIN events :
               ShownAsCritical(events[j]) <=> events[j].event_type \in AllButFour
        /\ ReportOfStore.empty <=> StoredOf(AllButFour) = <<>>
        /\ ~ReportOfStore.empty =>
               /\ ReportOfStore.found = Len(StoredOf(AllButFour))
               /\ OffsetsSinceEarliestOf(AllButFour)

\* C13 witness: the store holds an event of OnSettingsChanged and, later
\* than it, one critical event; the report shows the critical event alone,
\* at the offset 0
CriticalExcludesFourWitness ==
    /\ ReportOfStore.name = "critical"
    /\ ~ReportOfStore.empty
    /\ Len(events) = 2
    /\ events[2].event_type = ON_SETTINGS_CHANGED
    /\ events[1].event_type = ON_GAME_SELECTED
    /\ Earlier(events[2].timestamp, events[1].timestamp)
    /\ ReportOfStore.found = 1
    /\ DOMAIN ReportOfStore.sections = { events[1].extension }
    /\ ReportOfStore.sections[events[1].extension][1].delta = 0

\* the step is a call of a create_*_report or of generate_all_reports
MakesReport ==
    /\ CanReport
    /\ <<report, report_at, reports, reports_at>>' # <<report, report_at, reports, reports_at>>

GrownAtEnd(then, now) ==
    /\ Len(then) <= Len(now)
    /\ SubSeq(now, 1, Len(then)) = then

\* the three lists divide the events by their extension
Partitioned ==
    /\ \A i \in 1..Len(events) : events[i].extension \in KnownSources
    /\ uniplaysong_events = OfExtension(events, UNIPLAYSONG)
    /\ playnitesound_events = OfExtension(events, PLAYNITESOUND)
    /\ Len(events) = Len(uniplaysong_events) + Len(playnitesound_events)

\* C15: whatever lines and files were read, every stored event is of one of
\* the two extensions, each extension's list is the events of that
\* extension in the order of the full list, the full list is as long as
\* the two together, and a step only adds events at the end of a list
StoreAppendOnlyAndPartitioned ==
    /\ []Partitioned
    /\ [][ /\ GrownAtEnd(events, events')
           /\ GrownAtEnd(uniplaysong_events, uniplaysong_events')
           /\ GrownAtEnd(playnitesound_events, playnitesound_events') ]_vars

\* C15 witness: two files were read, an event of UniPlaySong, one of
\* PlayniteSound and another of UniPlaySong were stored in that order
StoreAppendOnlyWitness ==
    /\ pc = "done"
    /\ Len(log_file_paths) = 2
    /\ \A i \in 1..2 : file_lines[i] # <<>>
    /\ Len(events) = 3
    /\ events[1].extension = UNIPLAYSONG
    /\ events[2].extension = PLAYNITESOUND
    /\ events[3].extension = UNIPLAYSONG
    /\ Len(uniplaysong_events) = 2

====
